---- MODULE Spec2Model ----
(***************************************************************************)
(* Model of the task persistence and ordering engine of the kanban board:  *)
(* TaskService (src/app/services/task.service.ts) together with the input  *)
(* validation of ErrorHandlerService and the localStorage it writes to.    *)
(*                                                                         *)
(* Every public method of the service is one action.  An action runs the   *)
(* whole method, including every private helper it calls, and records in   *)
(* `last` what the caller of the method observes (its arguments, whether   *)
(* it threw, what it returned, how many localStorage writes it made).      *)
(***************************************************************************)
EXTENDS Integers, Sequences, FiniteSets, TLC

\* ------------------------------------------------------------------ bounds
\* Number of task ids the generator hands out in one run.
MaxTasks == 2

\* ------------------------------------------------------- program constants
STORAGE_KEY == "daily-tasks"
VERSION_KEY == "daily-tasks-version"
CURRENT_VERSION == "1.0.0"
MaxTitleLength == 128
MaxDescriptionLength == 256

BACKLOG == "backlog"
IN_PROGRESS == "in-progress"
DONE == "done"
\* Object.values(TaskStatus), in declaration order.
TaskStatusValues == <<BACKLOG, IN_PROGRESS, DONE>>
TaskStatus == {BACKLOG, IN_PROGRESS, DONE}

\* ----------------------------------------------------------------- strings
\* A string is a sequence of one-character strings.  Undefined is the value
\* of an absent optional field; it is no string (its element is no character).
Undefined == <<"undefined">>
\* An absent optional number, an absent optional status, and the id of a
\* record that has none (ids are the numbers from 1).
Omitted == -1
NoStatus == "undefined"
NoId == 0

\* c.repeat(n)
Repeat(c, n) == [i \in 1..n |-> c]

IsSpace(c) == c = " "

\* String.prototype.trimStart
TrimStart(s) ==
    IF \A i \in 1..Len(s) : IsSpace(s[i]) THEN <<>>
    ELSE LET first == CHOOSE i \in 1..Len(s) :
                        ~IsSpace(s[i]) /\ \A j \in 1..(i - 1) : IsSpace(s[j])
         IN  SubSeq(s, first, Len(s))

\* String.prototype.trimEnd
TrimEnd(s) ==
    IF \A i \in 1..Len(s) : IsSpace(s[i]) THEN <<>>
    ELSE LET final == CHOOSE i \in 1..Len(s) :
                        ~IsSpace(s[i]) /\ \A j \in (i + 1)..Len(s) : IsSpace(s[j])
         IN  SubSeq(s, 1, final)

\* String.prototype.trim
Trim(s) == TrimEnd(TrimStart(s))

\* description?.trim()
OptTrim(s) == IF s = Undefined THEN Undefined ELSE Trim(s)

\* --------------------------------------------------------------- sequences
RECURSIVE InsertByOrder(_, _)
InsertByOrder(sorted, t) ==
    IF sorted = <<>> THEN <<t>>
    ELSE IF Head(sorted).order <= t.order
         THEN <<Head(sorted)>> \o InsertByOrder(Tail(sorted), t)
         ELSE <<t>> \o sorted

\* Array.prototype.sort((a, b) => a.order - b.order): a stable sort.
RECURSIVE SortByOrder(_)
SortByOrder(s) ==
    IF s = <<>> THEN <<>>
    ELSE InsertByOrder(SortByOrder(SubSeq(s, 1, Len(s) - 1)), s[Len(s)])

RECURSIVE SetMax(_)
SetMax(S) ==
    LET x == CHOOSE y \in S : TRUE
    IN  IF S = {x} THEN x
        ELSE LET m == SetMax(S \ {x}) IN IF x > m THEN x ELSE m

\* ------------------------------------------------------------------- tasks
\* interface Task (models/task.model.ts).  createdAt is a day number.
Task(id, title, description, status, createdAt, order) ==
    [id |-> id, title |-> title, description |-> description,
     status |-> status, createdAt |-> createdAt, order |-> order]

\* Date.prototype.toISOString: the text of the instant, not the instant.
ToISOString(d) == [iso |-> d]

\* One element of tasksData as JSON.stringify writes it: createdAt is the ISO
\* text and a key whose value is undefined is left out.
ToJson(t) ==
    IF t.description = Undefined
    THEN [id |-> t.id, title |-> t.title, status |-> t.status,
          createdAt |-> ToISOString(t.createdAt), order |-> t.order]
    ELSE [id |-> t.id, title |-> t.title, description |-> t.description,
          status |-> t.status, createdAt |-> ToISOString(t.createdAt),
          order |-> t.order]

\* JSON.stringify(tasksData) in saveTasks.
Stringify(ts) == [i \in 1..Len(ts) |-> ToJson(ts[i])]

\* this._tasks().find(task => task.id === id) !== undefined
HasTask(ts, id) == \E i \in 1..Len(ts) : ts[i].id = id

\* getTask(id); used only where the task exists.
GetTask(ts, id) ==
    ts[CHOOSE i \in 1..Len(ts) :
          ts[i].id = id /\ \A j \in 1..(i - 1) : ts[j].id # id]

\* getTasksByStatus(status)
GetTasksByStatus(ts, status) ==
    SortByOrder(SelectSeq(ts, LAMBDA t : t.status = status))

\* getNextOrder(status)
GetNextOrder(ts, status) ==
    LET tasksInStatus == GetTasksByStatus(ts, status)
    IN  IF Len(tasksInStatus) > 0
        THEN SetMax({tasksInStatus[i].order : i \in 1..Len(tasksInStatus)}) + 1
        ELSE 0

\* ------------------------------------------------------- service state
\* What a method works on: the _tasks signal, localStorage, the number of
\* localStorage.setItem calls on STORAGE_KEY that returned, and the message
\* of the Error the method has thrown so far (NoError: none).
NoError == ""
Svc(ts, ls) == [tasks |-> ts, ls |-> ls, writes |-> 0, err |-> NoError]
Throw(st, msg) == [st EXCEPT !.err = msg]

ErrNotFound == "Task not found"
ErrTitleRequiredCreate == "Task title is required and cannot be empty"
ErrTitleTooLong == "Task title cannot exceed 128 characters"
ErrDescriptionTooLong == "Task description cannot exceed 256 characters"
ErrQuota == "Storage quota exceeded. Please clear some browser data and try again."
ErrNoSpace == "Not enough storage space. Please free up some space and try again."
ErrStorageAccess == "Failed to access browser storage. Please check your browser settings and try again."
\* new Date(undefined): the Invalid Date.
InvalidDate == -1

\* What the browser's storage does with the saves of one call: "ok" (the
\* write returns), "insufficient" (checkStorageQuota answers false), "quota"
\* (setItem throws QuotaExceededError).
SaveOutcomes == {"ok", "insufficient", "quota"}

ErrStorageUnavailable == "Browser storage is not available. Please check your browser settings."

\* What a save can fail with.  "insufficient": checkStorageQuota answered
\* false and saveTasks threw its own Error.  The others are what setItem
\* throws: "quota" and "quota-plain" the QuotaExceededError DOMException of a
\* full storage, with a message that names the quota or does not;
\* "security" and "denied" a SecurityError DOMException; "mock" the
\* new DOMException('QuotaExceededError') of the tests, whose name is
\* 'Error'; "text" a thrown value that is no Error.
WriteFailureKinds == {"insufficient", "quota", "quota-plain", "security",
                      "denied", "mock", "text"}
WriteFailure(sv) ==
    CASE sv = "insufficient" ->
           [isError |-> TRUE, name |-> "Error",
            message |-> "Insufficient localStorage space"]
      [] sv = "quota" ->
           [isError |-> TRUE, name |-> "QuotaExceededError",
            message |-> "Failed to execute 'setItem' on 'Storage': Setting the value of 'daily-tasks' exceeded the quota."]
      [] sv = "quota-plain" ->
           [isError |-> TRUE, name |-> "QuotaExceededError",
            message |-> "QuotaExceededError: DOM Exception 22"]
      [] sv = "security" ->
           [isError |-> TRUE, name |-> "SecurityError",
            message |-> "The operation is insecure."]
      [] sv = "denied" ->
           [isError |-> TRUE, name |-> "SecurityError",
            message |-> "Failed to read the 'localStorage' property from 'Window': Access is denied for this document."]
      [] sv = "mock" ->
           [isError |-> TRUE, name |-> "Error",
            message |-> "QuotaExceededError"]
      [] sv = "text" ->
           [isError |-> FALSE, name |-> "", message |-> ""]

\* message.includes(part), case-sensitive, for the messages above.
Includes(message, part) ==
    CASE part = "quota" ->
           message = WriteFailure("quota").message
      [] part = "Insufficient localStorage" ->
           message = WriteFailure("insufficient").message
      [] part = "localStorage" ->
           message \in {WriteFailure("insufficient").message,
                        WriteFailure("denied").message}

\* The catch of saveTasks and handleStorageError with the name test left out.
SurfacedErrorByMessage(error) ==
    IF error.isError /\ Includes(error.message, "quota") THEN ErrQuota
    ELSE IF error.isError
            /\ Includes(error.message, "Insufficient localStorage")
         THEN ErrNoSpace
    ELSE IF error.isError /\ Includes(error.message, "localStorage")
         THEN ErrStorageUnavailable
    ELSE ErrStorageAccess

\* The message of the Error the catch of saveTasks throws for the error it
\* caught, by itself or through handleStorageError.
SurfacedError(error) ==
    IF error.isError
       /\ (error.name = "QuotaExceededError"
             \/ Includes(error.message, "quota"))
    THEN ErrQuota
    ELSE IF error.isError
            /\ Includes(error.message, "Insufficient localStorage")
         THEN ErrNoSpace
    ELSE IF error.isError
            /\ (error.name = "QuotaExceededError"
                  \/ Includes(error.message, "quota"))
         THEN ErrQuota
    ELSE IF error.isError /\ Includes(error.message, "localStorage")
         THEN ErrStorageUnavailable
    ELSE ErrStorageAccess

\* localStorage.setItem(key, value)
SetItem(ls, key, value) ==
    [k \in DOMAIN ls \cup {key} |-> IF k = key THEN value ELSE ls[k]]

\* saveTasks that reads the stored array back first and writes it with the
\* tasks of the collection it does not hold added at its end.
SaveTasksMerging(st, sv) ==
    LET stored == IF STORAGE_KEY \in DOMAIN st.ls THEN st.ls[STORAGE_KEY]
                  ELSE <<>>
        own == Stringify(st.tasks)
        added == SelectSeq(own, LAMBDA j :
                     \A i \in 1..Len(stored) : stored[i].id # j.id)
    IN  IF sv = "ok"
        THEN [st EXCEPT !.ls = SetItem(st.ls, STORAGE_KEY, stored \o added),
                        !.writes = @ + 1]
        ELSE Throw(st, SurfacedError(WriteFailure(sv)))

\* saveTasks(); toISOString throws the RangeError 'Invalid time value' on the
\* Invalid Date, which handleStorageError rethrows as a storage failure.
SaveTasks(st, sv) ==
    IF \E i \in 1..Len(st.tasks) : st.tasks[i].createdAt = InvalidDate
    THEN Throw(st, SurfacedError([isError |-> TRUE, name |-> "RangeError",
                                  message |-> "Invalid time value"]))
    ELSE IF sv = "ok"
    THEN [st EXCEPT !.ls = SetItem(st.ls, STORAGE_KEY, Stringify(st.tasks)),
                    !.writes = @ + 1]
    ELSE Throw(st, SurfacedError(WriteFailure(sv)))

\* ------------------------------------------------------ validation rules
\* validateTaskInput without its check of the description.
ValidateTaskInputTitleOnly(title, description) ==
    LET trimmedTitle == Trim(title)
    IN  IF trimmedTitle = <<>> THEN ErrTitleRequiredCreate
        ELSE IF Len(trimmedTitle) > MaxTitleLength THEN ErrTitleTooLong
        ELSE NoError

\* ErrorHandlerService.validateTaskInput: the message it throws, or NoError.
ValidateTaskInput(title, description) ==
    LET trimmedTitle == Trim(title)
    IN  IF trimmedTitle = <<>> THEN ErrTitleRequiredCreate
        ELSE IF Len(trimmedTitle) > MaxTitleLength THEN ErrTitleTooLong
        ELSE IF description # Undefined /\ description # <<>>
                /\ Len(description) > MaxDescriptionLength
             THEN ErrDescriptionTooLong
        ELSE NoError

\* The checks updateTask and batchUpdateTasks make on a partial update u (a
\* record holding some of the keys title, description, status, order).  A
\* key that holds undefined is !== undefined no more than a key left out.
ValidateUpdates(u) ==
    IF "title" \in DOMAIN u /\ u.title # Undefined /\ Trim(u.title) = <<>>
    THEN "Task title is required"
    ELSE IF "title" \in DOMAIN u /\ u.title # Undefined
            /\ Len(u.title) > MaxTitleLength
         THEN ErrTitleTooLong
    ELSE IF "description" \in DOMAIN u /\ u.description # Undefined
            /\ Len(u.description) > MaxDescriptionLength
         THEN ErrDescriptionTooLong
    ELSE NoError

\* { ...t, ...updates, title: updates.title !== undefined ? ... : t.title,
\*   description: updates.description !== undefined ? ... : t.description }
ApplyUpdates(t, u) ==
    [id |-> t.id,
     title |-> IF "title" \in DOMAIN u /\ u.title # Undefined
               THEN Trim(u.title) ELSE t.title,
     description |-> IF "description" \in DOMAIN u /\ u.description # Undefined
                     THEN Trim(u.description) ELSE t.description,
     status |-> IF "status" \in DOMAIN u THEN u.status ELSE t.status,
     createdAt |-> t.createdAt,
     order |-> IF "order" \in DOMAIN u THEN u.order ELSE t.order]

\* --------------------------------------------------------- CRUD methods
\* createTask that takes the new task out again when the save throws.
CreateTaskRollback(st, id, title, description, day, sv) ==
    LET invalid == ValidateTaskInput(title, description)
        newTask == Task(id, Trim(title), OptTrim(description), BACKLOG, day,
                        GetNextOrder(st.tasks, BACKLOG))
        saved == SaveTasks([st EXCEPT !.tasks = Append(@, newTask)], sv)
    IN  IF invalid # NoError THEN Throw(st, invalid)
        ELSE IF saved.err # NoError THEN Throw(st, saved.err)
        ELSE saved

\* createTask(title, description) with generateId() = id and new Date() = day.
CreateTask(st, id, title, description, day, sv) ==
    LET invalid == ValidateTaskInput(title, description)
        newTask == Task(id, Trim(title), OptTrim(description), BACKLOG, day,
                        GetNextOrder(st.tasks, BACKLOG))
    IN  IF invalid # NoError THEN Throw(st, invalid)
        ELSE SaveTasks([st EXCEPT !.tasks = Append(@, newTask)], sv)

\* updateTask(id, updates); its update of the collection is
\* tasks.map(t => t.id === id ? { ...t, ...updates, title, description } : t)
UpdateTask(st, id, u, sv) ==
    IF ~HasTask(st.tasks, id) THEN Throw(st, ErrNotFound)
    ELSE IF ValidateUpdates(u) # NoError THEN Throw(st, ValidateUpdates(u))
    ELSE SaveTasks(
           [st EXCEPT !.tasks =
              [i \in 1..Len(@) |->
                 IF @[i].id = id THEN ApplyUpdates(@[i], u) ELSE @[i]]],
           sv)

\* deleteTask(id): the state after the call; it returns true exactly when
\* the collection got shorter.
DeleteTask(st, id, sv) ==
    LET kept == SelectSeq(st.tasks, LAMBDA t : t.id # id)
    IN  IF Len(kept) < Len(st.tasks)
        THEN SaveTasks([st EXCEPT !.tasks = kept], sv)
        ELSE st

\* ------------------------------------------------------ ordering methods
\* The forEach of reorderTasksInColumn over its snapshot tasksInColumn; the
\* shift is tasks.map(t => t.id === task.id ? { ...t, order: t.order + 1 } : t)
RECURSIVE ShiftEach(_, _, _)
ShiftEach(ts, tasksInColumn, insertOrder) ==
    IF tasksInColumn = <<>> THEN ts
    ELSE LET task == Head(tasksInColumn)
             next == IF task.order >= insertOrder
                     THEN [i \in 1..Len(ts) |->
                             IF ts[i].id = task.id
                             THEN [ts[i] EXCEPT !.order = @ + 1] ELSE ts[i]]
                     ELSE ts
         IN  ShiftEach(next, Tail(tasksInColumn), insertOrder)

\* reorderTasksInColumn shifting only the tasks below the insert position
\* (task.order > insertOrder in place of >=).
ReorderTasksInColumnBelow(ts, status, insertOrder, excludeTaskId) ==
    ShiftEach(ts,
              SelectSeq(GetTasksByStatus(ts, status),
                        LAMBDA t : t.id # excludeTaskId),
              insertOrder + 1)

\* reorderTasksInColumn(status, insertOrder, excludeTaskId)
ReorderTasksInColumn(ts, status, insertOrder, excludeTaskId) ==
    ShiftEach(ts,
              SelectSeq(GetTasksByStatus(ts, status),
                        LAMBDA t : t.id # excludeTaskId),
              insertOrder)

\* The forEach of compactTaskOrders; index is the 0-based array index and the
\* update is tasks.map(t => t.id === task.id ? { ...t, order: index } : t)
RECURSIVE CompactEach(_, _, _)
CompactEach(ts, tasksInColumn, index) ==
    IF tasksInColumn = <<>> THEN ts
    ELSE LET task == Head(tasksInColumn)
             next == IF task.order # index
                     THEN [i \in 1..Len(ts) |->
                             IF ts[i].id = task.id
                             THEN [ts[i] EXCEPT !.order = index] ELSE ts[i]]
                     ELSE ts
         IN  CompactEach(next, Tail(tasksInColumn), index + 1)

\* compactTaskOrders that does not leave out the task being moved.
CompactTaskOrdersAll(ts, status, excludeTaskId) ==
    CompactEach(ts, GetTasksByStatus(ts, status), 0)

\* compactTaskOrders(status, excludeTaskId)
CompactTaskOrders(ts, status, excludeTaskId) ==
    CompactEach(ts,
                SelectSeq(GetTasksByStatus(ts, status),
                          LAMBDA t : t.id # excludeTaskId),
                0)

\* changeTaskStatus that makes room in the target column before it looks
\* the task up.
ChangeTaskStatusShiftFirst(st, id, newStatus, newOrder, sv) ==
    LET targetOrder == IF newOrder # Omitted THEN newOrder
                       ELSE GetNextOrder(st.tasks, newStatus)
        shifted == ReorderTasksInColumn(st.tasks, newStatus, targetOrder, id)
    IN  UpdateTask([st EXCEPT !.tasks = shifted], id,
                   [status |-> newStatus, order |-> targetOrder], sv)

\* changeTaskStatus(id, newStatus, newOrder); newOrder = Omitted: not given.
ChangeTaskStatus(st, id, newStatus, newOrder, sv) ==
    IF ~HasTask(st.tasks, id) THEN Throw(st, ErrNotFound)
    ELSE LET task == GetTask(st.tasks, id)
             targetOrder == IF newOrder # Omitted THEN newOrder
                            ELSE GetNextOrder(st.tasks, newStatus)
             shifted == IF task.status # newStatus
                        THEN ReorderTasksInColumn(st.tasks, newStatus,
                                                  targetOrder, id)
                        ELSE st.tasks
         IN  UpdateTask([st EXCEPT !.tasks = shifted], id,
                        [status |-> newStatus, order |-> targetOrder], sv)

\* reorderTask(id, newOrder)
ReorderTask(st, id, newOrder, sv) ==
    IF ~HasTask(st.tasks, id) THEN Throw(st, ErrNotFound)
    ELSE LET task == GetTask(st.tasks, id)
         IN  UpdateTask(
               [st EXCEPT !.tasks =
                    ReorderTasksInColumn(@, task.status, newOrder, id)],
               id, [order |-> newOrder], sv)

\* moveTask(id, newStatus, newOrder)
MoveTask(st, id, newStatus, newOrder, sv) ==
    IF ~HasTask(st.tasks, id) THEN Throw(st, ErrNotFound)
    ELSE LET task == GetTask(st.tasks, id)
             arranged ==
               IF task.status # newStatus
               THEN ReorderTasksInColumn(
                      CompactTaskOrders(st.tasks, task.status, id),
                      newStatus, newOrder, id)
               ELSE ReorderTasksInColumn(st.tasks, newStatus, newOrder, id)
         IN  UpdateTask([st EXCEPT !.tasks = arranged], id,
                        [status |-> newStatus, order |-> newOrder], sv)

\* -------------------------------------------------- atomic batch update
\* "Task not found: ${update.id}"
ErrNotFoundId(id) == "Task not found: " \o ToString(id)

\* The first loop of batchUpdateTasks: the first update whose task is missing.
FirstMissing(ts, updates) ==
    IF \E i \in 1..Len(updates) : ~HasTask(ts, updates[i].id)
    THEN CHOOSE i \in 1..Len(updates) :
           /\ ~HasTask(ts, updates[i].id)
           /\ \A j \in 1..(i - 1) : HasTask(ts, updates[j].id)
    ELSE 0

\* The second loop of batchUpdateTasks: the first update that fails validation.
FirstInvalid(updates) ==
    IF \E i \in 1..Len(updates) : ValidateUpdates(updates[i].updates) # NoError
    THEN CHOOSE i \in 1..Len(updates) :
           /\ ValidateUpdates(updates[i].updates) # NoError
           /\ \A j \in 1..(i - 1) : ValidateUpdates(updates[j].updates) = NoError
    ELSE 0

\* updatedTasks.findIndex(t => t.id === id), 1-based; 0: not found.
FindIndex(ts, id) ==
    IF HasTask(ts, id)
    THEN CHOOSE i \in 1..Len(ts) :
           ts[i].id = id /\ \A j \in 1..(i - 1) : ts[j].id # id
    ELSE 0

\* The updates.forEach inside this._tasks.update of batchUpdateTasks.
RECURSIVE ApplyAll(_, _)
ApplyAll(updatedTasks, updates) ==
    IF updates = <<>> THEN updatedTasks
    ELSE LET update == Head(updates)
             taskIndex == FindIndex(updatedTasks, update.id)
             next == IF taskIndex # 0
                     THEN [updatedTasks EXCEPT ![taskIndex] =
                             ApplyUpdates(@, update.updates)]
                     ELSE updatedTasks
         IN  ApplyAll(next, Tail(updates))

\* batchUpdateTasks whose catch does not restore currentTasks.
BatchUpdateTasksNoRollback(st, updates, sv) ==
    LET missing == FirstMissing(st.tasks, updates)
        invalid == FirstInvalid(updates)
    IN  IF missing # 0 THEN Throw(st, ErrNotFoundId(updates[missing].id))
        ELSE IF invalid # 0
             THEN Throw(st, ValidateUpdates(updates[invalid].updates))
        ELSE SaveTasks([st EXCEPT !.tasks = ApplyAll(@, updates)], sv)

\* The forEach of a batchUpdateTasks that saves after every update.
RECURSIVE ApplyAndSaveEach(_, _, _)
ApplyAndSaveEach(st, updates, sv) ==
    IF updates = <<>> \/ st.err # NoError THEN st
    ELSE ApplyAndSaveEach(
           SaveTasks([st EXCEPT !.tasks = ApplyAll(@, <<Head(updates)>>)], sv),
           Tail(updates), sv)

\* batchUpdateTasks with one persistence write per record.
BatchUpdateTasksSaveEach(st, updates, sv) ==
    LET missing == FirstMissing(st.tasks, updates)
        invalid == FirstInvalid(updates)
        saved == ApplyAndSaveEach(st, updates, sv)
    IN  IF missing # 0 THEN Throw(st, ErrNotFoundId(updates[missing].id))
        ELSE IF invalid # 0
             THEN Throw(st, ValidateUpdates(updates[invalid].updates))
        ELSE IF saved.err # NoError
             THEN [saved EXCEPT !.tasks = st.tasks]
        ELSE saved

\* batchUpdateTasks(updates)
BatchUpdateTasks(st, updates, sv) ==
    LET missing == FirstMissing(st.tasks, updates)
        invalid == FirstInvalid(updates)
        currentTasks == st.tasks
        saved == SaveTasks([st EXCEPT !.tasks = ApplyAll(@, updates)], sv)
    IN  IF missing # 0 THEN Throw(st, ErrNotFoundId(updates[missing].id))
        ELSE IF invalid # 0
             THEN Throw(st, ValidateUpdates(updates[invalid].updates))
        ELSE IF saved.err # NoError
             THEN [saved EXCEPT !.tasks = currentTasks]
        ELSE saved

\* The update list handleDragDropOperation builds from an operation
\* [taskId, newStatus (NoStatus: absent), newOrder, affectedTasks].
DragDropUpdates(operation) ==
    LET mainUpdate == IF operation.newStatus # NoStatus
                      THEN [order |-> operation.newOrder,
                            status |-> operation.newStatus]
                      ELSE [order |-> operation.newOrder]
        others == SelectSeq(operation.affectedTasks,
                            LAMBDA a : a.id # operation.taskId)
    IN  <<[id |-> operation.taskId, updates |-> mainUpdate]>>
        \o [i \in 1..Len(others) |->
              [id |-> others[i].id, updates |-> [order |-> others[i].newOrder]]]

\* handleDragDropOperation applying the main task's update on its own
\* before the batch of the affected tasks.
HandleDragDropOperationMainFirst(st, operation, sv) ==
    LET updates == DragDropUpdates(operation)
        main == BatchUpdateTasks(st, <<Head(updates)>>, sv)
    IN  IF main.err # NoError THEN main
        ELSE BatchUpdateTasks(main, Tail(updates), sv)

\* handleDragDropOperation(operation): the state after the call.  It catches
\* whatever batchUpdateTasks throws; err is then the error of its result.
HandleDragDropOperation(st, operation, sv) ==
    BatchUpdateTasks(st, DragDropUpdates(operation), sv)

\* ---------------------------------------------------- integrity methods
\* tasks.filter(t => t.status === status).sort(...) has order = index.
ColumnInOrder(ts, status) ==
    LET statusTasks == GetTasksByStatus(ts, status)
    IN  \A i \in 1..Len(statusTasks) : statusTasks[i].order = i - 1

\* validateTaskIntegrity().isValid without the check for duplicate ids.
ValidateTaskIntegrityNoDuplicates(ts) ==
    /\ \A k \in 1..Len(TaskStatusValues) : ColumnInOrder(ts, TaskStatusValues[k])
    /\ \A i \in 1..Len(ts) :
         /\ ts[i].id # NoId
         /\ ts[i].title # Undefined /\ Trim(ts[i].title) # <<>>
         /\ Len(ts[i].title) <= MaxTitleLength
         /\ ts[i].description \in {Undefined, <<>>}
              \/ Len(ts[i].description) <= MaxDescriptionLength
         /\ ts[i].status \in TaskStatus

\* validateTaskIntegrity().isValid
ValidateTaskIntegrity(ts) ==
    /\ \A i, j \in 1..Len(ts) : ts[i].id = ts[j].id => i = j
    /\ \A k \in 1..Len(TaskStatusValues) : ColumnInOrder(ts, TaskStatusValues[k])
    /\ \A i \in 1..Len(ts) :
         /\ ts[i].id # NoId
         /\ ts[i].title # Undefined /\ Trim(ts[i].title) # <<>>
         /\ Len(ts[i].title) <= MaxTitleLength
         /\ ts[i].description \in {Undefined, <<>>}
              \/ Len(ts[i].description) <= MaxDescriptionLength
         /\ ts[i].status \in TaskStatus

\* The inner forEach of reorderAllColumns over its snapshot tasksInColumn.
RECURSIVE ReorderColumn(_, _, _, _)
ReorderColumn(st, tasksInColumn, index, sv) ==
    IF tasksInColumn = <<>> \/ st.err # NoError THEN st
    ELSE LET task == Head(tasksInColumn)
             next == IF task.order # index
                     THEN UpdateTask(st, task.id, [order |-> index], sv)
                     ELSE st
         IN  ReorderColumn(next, Tail(tasksInColumn), index + 1, sv)

\* reorderAllColumns() is ReorderColumnsFrom(st, 1, sv): its Object.values
\* loop, from the k-th status on.
RECURSIVE ReorderColumnsFrom(_, _, _)
ReorderColumnsFrom(st, k, sv) ==
    IF k > Len(TaskStatusValues) \/ st.err # NoError THEN st
    ELSE ReorderColumnsFrom(
           ReorderColumn(st, GetTasksByStatus(st.tasks, TaskStatusValues[k]),
                         0, sv),
           k + 1, sv)

\* The filter of cleanupOldTasks deciding by age alone.
TasksToKeepByAge(ts, today, daysOld) ==
    SelectSeq(ts, LAMBDA t : t.createdAt > today - daysOld)

\* The filter of cleanupOldTasks; cutoffDate = today - daysOld.
TasksToKeep(ts, today, daysOld) ==
    SelectSeq(ts, LAMBDA t : t.status # DONE \/ t.createdAt > today - daysOld)

\* cleanupOldTasks(daysOld): the state after the call.  Its catch swallows
\* every error; err is then the error it passed to handleError.
CleanupOldTasks(st, today, daysOld, sv) ==
    LET tasksToKeep == TasksToKeep(st.tasks, today, daysOld)
        removedCount == Len(st.tasks) - Len(tasksToKeep)
        reordered == ReorderColumnsFrom([st EXCEPT !.tasks = tasksToKeep], 1,
                                        sv)
    IN  IF removedCount > 0
        THEN IF reordered.err # NoError THEN reordered
             ELSE SaveTasks(reordered, sv)
        ELSE st

\* The filter of repairTaskIntegrity.
IsSalvageable(t) ==
    /\ t.id # NoId
    /\ t.title # Undefined /\ t.title # <<>>
    /\ Len(Trim(t.title)) > 0
    /\ t.status \in TaskStatus

\* The index by position in the array, without the sort by order.
RepairedOrderByPosition(validTasks, i) ==
    Cardinality({j \in 1..Len(validTasks) :
        validTasks[j].status = validTasks[i].status /\ j < i})

\* The index in a sort by descending order.
RepairedOrderDescending(validTasks, i) ==
    Cardinality({j \in 1..Len(validTasks) :
        /\ validTasks[j].status = validTasks[i].status
        /\ \/ validTasks[j].order > validTasks[i].order
           \/ validTasks[j].order = validTasks[i].order /\ j < i})

\* The index repairTaskIntegrity assigns to validTasks[i]: its position in
\* the stable sort by order of the tasks of its status.
RepairedOrder(validTasks, i) ==
    Cardinality({j \in 1..Len(validTasks) :
        /\ validTasks[j].status = validTasks[i].status
        /\ \/ validTasks[j].order < validTasks[i].order
           \/ validTasks[j].order = validTasks[i].order /\ j < i})

\* repairTaskIntegrity(): the state after the call.  Its catch swallows the
\* error of saveTasks and it then returns false.
RepairTaskIntegrity(st, sv) ==
    LET validTasks == SelectSeq(st.tasks, IsSalvageable)
        renumbered == [i \in 1..Len(validTasks) |->
                         [validTasks[i] EXCEPT !.order =
                             RepairedOrder(validTasks, i)]]
    IN  SaveTasks([st EXCEPT !.tasks = renumbered], sv)

\* ------------------------------------------------------------- startup
\* The text stored under a key is modelled by the value JSON.parse makes of
\* it: the text of a task array is the sequence of its records (Stringify).
\* NotJson is a stored text that JSON.parse rejects with a SyntaxError.
NotJson == <<[text |-> "not json"]>>

\* localStorage.getItem(key) is not null
HasItem(ls, key) == key \in DOMAIN ls

\* localStorage.removeItem(key)
RemoveItem(ls, key) == [k \in DOMAIN ls \ {key} |-> ls[k]]

\* { ...taskData, createdAt: new Date(taskData.createdAt) } in loadTasks: a
\* key the stored record lacks is undefined in the task; new Date(text) of
\* the ISO text of an instant is that instant.
FromJson(j) ==
    Task(IF "id" \in DOMAIN j THEN j.id ELSE NoId,
         IF "title" \in DOMAIN j THEN j.title ELSE Undefined,
         IF "description" \in DOMAIN j THEN j.description ELSE Undefined,
         IF "status" \in DOMAIN j THEN j.status ELSE NoStatus,
         IF "createdAt" \in DOMAIN j THEN j.createdAt.iso
                                     ELSE InvalidDate,
         IF "order" \in DOMAIN j THEN j.order ELSE Omitted)

\* status.toLowerCase(), on the status texts of the stored records.
ToLowerCase(text) ==
    CASE text = "TODO" -> "todo"
      [] text = "Doing" -> "doing"
      [] OTHER -> text

\* validateStatus that knows the names of the enumeration only.
ValidateStatusStrict(status) ==
    IF status \in TaskStatus THEN status ELSE NoStatus

\* validateStatus(status); NoStatus stands for null.
ValidateStatus(status) ==
    LET lower == ToLowerCase(status)
    IN  IF status = NoStatus THEN NoStatus
        ELSE IF lower \in {"backlog", "todo", "pending"} THEN BACKLOG
        ELSE IF lower \in {"in-progress", "inprogress", "in_progress",
                           "doing", "active"} THEN IN_PROGRESS
        ELSE IF lower \in {"done", "completed", "finished"} THEN DONE
        ELSE IF status \in TaskStatus THEN status
        ELSE NoStatus

\* The record data.map makes of a legacy record in migrateLegacyData (index
\* is the 0-based array index), as JSON.stringify then writes it.  The id
\* `migrated_task_${Date.now()}_${index}` is an id no generated id equals:
\* a negative number.
MigrateRecord(j, index, today) ==
    LET t == FromJson(j)
    IN  ToJson(Task(
          IF t.id # NoId THEN t.id ELSE 0 - (index + 1),
          IF t.title # Undefined /\ t.title # <<>>
              THEN t.title
              ELSE <<"U", "n", "t", "i", "t", "l", "e", "d", " ",
                     "T", "a", "s", "k">>,
          IF t.description # Undefined /\ t.description # <<>>
              THEN t.description ELSE Undefined,
          IF ValidateStatus(t.status) # NoStatus THEN ValidateStatus(t.status)
                                                 ELSE BACKLOG,
          IF t.createdAt # InvalidDate THEN t.createdAt ELSE today,
          IF t.order # Omitted THEN t.order ELSE index))

\* Array.isArray(data) && data.length > 0 && data[0].id
LooksLegacy(data) ==
    /\ Len(data) > 0
    /\ "id" \in DOMAIN data[1]
    /\ data[1].id # NoId

\* What the storage does with the setItem calls of a startup that are not
\* made by saveTasks: "ok" (the call returns) or "quota" (it throws).
SetItemOutcomes == {"ok", "quota"}

\* migrateLegacyData whose catch leaves the stored data in place.
MigrateLegacyDataKeepOnError(ls, today, svMigrate) ==
    IF ~HasItem(ls, STORAGE_KEY) THEN ls
    ELSE IF ls[STORAGE_KEY] = NotJson THEN ls
    ELSE LET data == ls[STORAGE_KEY]
             migratedTasks == [i \in 1..Len(data) |->
                                  MigrateRecord(data[i], i - 1, today)]
         IN  IF LooksLegacy(data) /\ svMigrate = "ok"
             THEN SetItem(ls, STORAGE_KEY, migratedTasks)
             ELSE ls

\* migrateLegacyData(): the storage after the call; svMigrate is the outcome
\* of the setItem that writes the migrated records back.
MigrateLegacyData(ls, today, svMigrate) ==
    IF ~HasItem(ls, STORAGE_KEY) THEN ls
    ELSE IF ls[STORAGE_KEY] = NotJson THEN RemoveItem(ls, STORAGE_KEY)
    ELSE LET data == ls[STORAGE_KEY]
             migratedTasks == [i \in 1..Len(data) |->
                                  MigrateRecord(data[i], i - 1, today)]
         IN  IF LooksLegacy(data)
             THEN IF svMigrate = "ok"
                  THEN SetItem(ls, STORAGE_KEY, migratedTasks)
                  ELSE RemoveItem(ls, STORAGE_KEY)
             ELSE ls

\* a.split('.').map(Number) for the version texts of the model.
VersionParts(text) ==
    CASE text = "0.9.0" -> <<0, 9, 0>>
      [] text = "1.0.0" -> <<1, 0, 0>>
      [] text = "1.0" -> <<1, 0>>
      [] text = "1.2" -> <<1, 2>>
      [] text = "1.9.0" -> <<1, 9, 0>>
      [] text = "1.10.0" -> <<1, 10, 0>>

\* The for loop of compareVersions from index i on (1-based here); a part
\* past the end of its array is undefined, and undefined || 0 is 0.
RECURSIVE CompareParts(_, _, _)
CompareParts(aParts, bParts, i) ==
    LET aPart == IF i <= Len(aParts) THEN aParts[i] ELSE 0
        bPart == IF i <= Len(bParts) THEN bParts[i] ELSE 0
    IN  IF i > Len(aParts) /\ i > Len(bParts) THEN 0
        ELSE IF aPart < bPart THEN 0 - 1
        ELSE IF aPart > bPart THEN 1
        ELSE CompareParts(aParts, bParts, i + 1)

\* compareVersions that compares the parts by their first digit, as a
\* comparison of the texts does.
CompareVersionsAsText(a, b) ==
    LET Digits(parts) == [i \in 1..Len(parts) |->
                            IF parts[i] >= 10 THEN parts[i] \div 10
                                              ELSE parts[i]]
    IN  CompareParts(Digits(VersionParts(a)), Digits(VersionParts(b)), 1)

\* compareVersions(a, b)
CompareVersions(a, b) == CompareParts(VersionParts(a), VersionParts(b), 1)

\* The migrations array of getMigrationPath: no migration is registered.
RegisteredMigrations == <<>>

\* The predicate getMigrationPath filters with.
KeepsMigration(migration, fromVersion, toVersion) ==
    /\ CompareVersions(migration.version, fromVersion) > 0
    /\ CompareVersions(migration.version, toVersion) <= 0

\* getMigrationPath(fromVersion, toVersion)
GetMigrationPath(fromVersion, toVersion) ==
    SelectSeq(RegisteredMigrations,
              LAMBDA migration :
                  KeepsMigration(migration, fromVersion, toVersion))

\* for (const migration of migrations) { migration.migrate(); }: each
\* migration of the path changes the storage.
RECURSIVE RunMigrations(_, _)
RunMigrations(ls, migrations) ==
    IF migrations = <<>> THEN ls
    ELSE RunMigrations(Head(migrations).migrate[ls], Tail(migrations))

\* handleDataMigration that stamps the version of unversioned data only.
HandleDataMigrationLegacyOnly(ls, today, svMigrate, svStamp) ==
    IF ~HasItem(ls, VERSION_KEY)
    THEN LET migrated == MigrateLegacyData(ls, today, svMigrate)
         IN  IF svStamp = "ok"
             THEN SetItem(migrated, VERSION_KEY, CURRENT_VERSION)
             ELSE migrated
    ELSE ls

\* handleDataMigration(): the storage after the call; svStamp is the outcome
\* of the setItem that stamps the version.  Its catch swallows every error.
\* migrateData(fromVersion, toVersion) runs the migrations of the path.
HandleDataMigration(ls, today, svMigrate, svStamp) ==
    IF ~HasItem(ls, VERSION_KEY)
    THEN LET migrated == MigrateLegacyData(ls, today, svMigrate)
         IN  IF svStamp = "ok"
             THEN SetItem(migrated, VERSION_KEY, CURRENT_VERSION)
             ELSE migrated
    ELSE IF ls[VERSION_KEY] # CURRENT_VERSION
         THEN LET migrated ==
                    RunMigrations(ls, GetMigrationPath(ls[VERSION_KEY],
                                                       CURRENT_VERSION))
              IN  IF svStamp = "ok"
                  THEN SetItem(migrated, VERSION_KEY, CURRENT_VERSION)
                  ELSE migrated
    ELSE ls

\* The setItem of handleDataMigration that threw, if one did.
MigrationWriteFailed(ls, svMigrate, svStamp) ==
    \/ /\ ~HasItem(ls, VERSION_KEY)
       /\ HasItem(ls, STORAGE_KEY)
       /\ ls[STORAGE_KEY] # NotJson
       /\ LooksLegacy(ls[STORAGE_KEY])
       /\ svMigrate # "ok"
    \/ /\ ~HasItem(ls, VERSION_KEY) \/ ls[VERSION_KEY] # CURRENT_VERSION
       /\ svStamp # "ok"

\* loadTasks() that lets the SyntaxError of JSON.parse out.
LoadTasksNoCatch(ls) ==
    IF ~HasItem(ls, STORAGE_KEY) THEN [tasks |-> <<>>, thrown |-> FALSE]
    ELSE IF ls[STORAGE_KEY] = NotJson THEN [tasks |-> <<>>, thrown |-> TRUE]
    ELSE [tasks |-> [i \in 1..Len(ls[STORAGE_KEY]) |->
                        FromJson(ls[STORAGE_KEY][i])],
          thrown |-> FALSE]

\* loadTasks(): the collection of a new service (its _tasks signal starts
\* empty) after the call, and whether the call threw.  The catch sets the
\* collection to [].
LoadTasks(ls) ==
    IF ~HasItem(ls, STORAGE_KEY) THEN [tasks |-> <<>>, thrown |-> FALSE]
    ELSE IF ls[STORAGE_KEY] = NotJson THEN [tasks |-> <<>>, thrown |-> FALSE]
    ELSE [tasks |-> [i \in 1..Len(ls[STORAGE_KEY]) |->
                        FromJson(ls[STORAGE_KEY][i])],
          thrown |-> FALSE]

\* validateAndRepairOnInit(): the state after the call; it swallows the
\* failure of the repair, whose error stays in err.
ValidateAndRepairOnInit(st, sv) ==
    IF ~ValidateTaskIntegrity(st.tasks) THEN RepairTaskIntegrity(st, sv)
    ELSE st

\* The name of the exception a refused setItem throws.
QuotaExceededError == "QuotaExceededError"

\* constructor(): the service constructed over the storage ls.  err is the
\* error of the first storage write that failed during it, which the
\* constructor swallows; thrown tells whether the constructor threw.
Constructor(ls, today, svMigrate, svStamp, svRepair) ==
    LET migrated == HandleDataMigration(ls, today, svMigrate, svStamp)
        loaded == LoadTasks(migrated)
        st == IF loaded.thrown THEN Svc(<<>>, migrated)
              ELSE ValidateAndRepairOnInit(Svc(loaded.tasks, migrated),
                                           svRepair)
    IN  [tasks |-> st.tasks, ls |-> st.ls, writes |-> st.writes,
         err |-> IF MigrationWriteFailed(ls, svMigrate, svStamp)
                 THEN QuotaExceededError ELSE st.err,
         thrown |-> loaded.thrown]

\* ------------------------------------------------------------- the state
VARIABLES
    tasks,         \* the _tasks signal: the in-memory collection, an array
    localStorage,  \* the browser's storage: key -> stored value
    nextId,        \* the ids generateId has handed out are 1..nextId-1
    last           \* the last call of a service method, as its caller saw it

vars == <<tasks, localStorage, nextId, last>>

\* ---------------------------------------------------------------- inputs
Ids == 1..MaxTasks
\* Order values an operation receives or produces: the positions of a
\* column of MaxTasks tasks, and the one past them.
Orders == 0..MaxTasks
\* The day every new Date() of the run falls on.
Today == 0
ValidTitle == <<"T">>
BlankTitle == <<" ">>
LongTitle == Repeat("a", MaxTitleLength + 1)
LongDescription == Repeat("d", MaxDescriptionLength + 1)
TitleInputs == {ValidTitle, BlankTitle, LongTitle}
DescriptionInputs == {Undefined, LongDescription}
\* Partial updates: Partial<Omit<Task, 'id' | 'createdAt'>>
OrderUpdates == {[order |-> n] : n \in Orders}
UpdateInputs ==
    OrderUpdates \cup {[status |-> s] : s \in TaskStatus}
    \cup {[title |-> ValidTitle], [title |-> BlankTitle],
          [description |-> LongDescription]}
\* Update lists of batchUpdateTasks: no entry, one entry, or an order
\* update followed by an order update or a blank title.
BatchInputs ==
    {<<>>} \cup {<<[id |-> i, updates |-> u]>> : i \in Ids, u \in UpdateInputs}
    \cup {<<[id |-> i, updates |-> [order |-> 0]], [id |-> j, updates |-> u]>> :
            i \in Ids, j \in Ids,
            u \in {[order |-> 1], [title |-> BlankTitle]}}
\* Operations of handleDragDropOperation: a task, with or without a new
\* status, a new order, and no affected task or one that goes to the top.
DragDropInputs ==
    {[taskId |-> i, newStatus |-> s, newOrder |-> n, affectedTasks |-> a] :
        i \in Ids, s \in {NoStatus, IN_PROGRESS}, n \in Orders,
        a \in {<<>>} \cup {<<[id |-> j, newOrder |-> 0]>> : j \in Ids}}
\* cleanupOldTasks(daysOld: number = 30)
DaysOldInputs == {0, 30}

\* ----------------------------------------------------------------- calls
\* The record of a call: the method; the id it was given (NoId: none);
\* whether it threw; whether it did what it was asked (it returned normally
\* and reported no failure); the localStorage writes it made; the message of
\* the error it threw or reported.  n is the number of entries of the update
\* list of a batch, and the number of tasks a cleanup removed.  For
\* changeTaskStatus and moveTask also the status the task had before the call
\* and whether the collection passed validateTaskIntegrity before the call.
Call(op, id, st) ==
    [op |-> op, id |-> id, from |-> NoStatus, preValid |-> FALSE, n |-> 0,
     threw |-> st.err # NoError, ok |-> st.err = NoError,
     writes |-> st.writes, err |-> st.err]

Moved(call) ==
    [call EXCEPT !.from = IF HasTask(tasks, call.id)
                          THEN GetTask(tasks, call.id).status ELSE NoStatus,
                 !.preValid = ValidateTaskIntegrity(tasks)]

\* The method returned a failure result instead of throwing.
Reported(call) == [call EXCEPT !.threw = FALSE]

Commit(st) ==
    /\ \A i \in 1..Len(st.tasks) : st.tasks[i].order \in Orders
    /\ tasks' = st.tasks
    /\ localStorage' = st.ls

\* The service constructed over a storage that holds no tasks: the
\* constructor has stamped the version and loaded nothing.
Init ==
    /\ tasks = <<>>
    /\ localStorage = [k \in {VERSION_KEY} |-> CURRENT_VERSION]
    /\ nextId = 1
    /\ last = Call("constructor", NoId, Svc(<<>>, <<>>))

CreateTaskCall(title, description, sv) ==
    LET st == CreateTask(Svc(tasks, localStorage), nextId, title,
                         description, Today, sv)
        made == Len(st.tasks) > Len(tasks)
    IN  /\ nextId <= MaxTasks
        /\ Commit(st)
        /\ nextId' = IF made THEN nextId + 1 ELSE nextId
        /\ last' = Call("createTask", IF made THEN nextId ELSE NoId, st)

UpdateTaskCall(id, u, sv) ==
    LET st == UpdateTask(Svc(tasks, localStorage), id, u, sv)
    IN  /\ Commit(st)
        /\ last' = Call("updateTask", id, st)
        /\ UNCHANGED nextId

DeleteTaskCall(id, sv) ==
    LET st == DeleteTask(Svc(tasks, localStorage), id, sv)
    IN  /\ Commit(st)
        /\ last' = [Call("deleteTask", id, st) EXCEPT
                      !.ok = st.err = NoError /\ Len(st.tasks) < Len(tasks)]
        /\ UNCHANGED nextId

ChangeTaskStatusCall(id, newStatus, newOrder, sv) ==
    LET st == ChangeTaskStatus(Svc(tasks, localStorage), id, newStatus,
                               newOrder, sv)
    IN  /\ Commit(st)
        /\ last' = Moved(Call("changeTaskStatus", id, st))
        /\ UNCHANGED nextId

ReorderTaskCall(id, newOrder, sv) ==
    LET st == ReorderTask(Svc(tasks, localStorage), id, newOrder, sv)
    IN  /\ Commit(st)
        /\ last' = Call("reorderTask", id, st)
        /\ UNCHANGED nextId

MoveTaskCall(id, newStatus, newOrder, sv) ==
    LET st == MoveTask(Svc(tasks, localStorage), id, newStatus, newOrder, sv)
    IN  /\ Commit(st)
        /\ last' = Moved(Call("moveTask", id, st))
        /\ UNCHANGED nextId

BatchUpdateTasksCall(updates, sv) ==
    LET st == BatchUpdateTasks(Svc(tasks, localStorage), updates, sv)
    IN  /\ Commit(st)
        /\ last' = [Call("batchUpdateTasks", NoId, st)
                      EXCEPT !.n = Len(updates)]
        /\ UNCHANGED nextId

HandleDragDropOperationCall(operation, sv) ==
    LET st == HandleDragDropOperation(Svc(tasks, localStorage), operation, sv)
    IN  /\ Commit(st)
        /\ last' = [Reported(Call("handleDragDropOperation",
                                  operation.taskId, st))
                      EXCEPT !.n = Len(DragDropUpdates(operation))]
        /\ UNCHANGED nextId

ValidateTaskIntegrityCall ==
    /\ last' = [Call("validateTaskIntegrity", NoId, Svc(tasks, localStorage))
                  EXCEPT !.ok = ValidateTaskIntegrity(tasks)]
    /\ UNCHANGED <<tasks, localStorage, nextId>>

RepairTaskIntegrityCall(sv) ==
    LET st == RepairTaskIntegrity(Svc(tasks, localStorage), sv)
    IN  /\ Commit(st)
        /\ last' = Reported(Call("repairTaskIntegrity", NoId, st))
        /\ UNCHANGED nextId

CleanupOldTasksCall(daysOld, sv) ==
    LET st == CleanupOldTasks(Svc(tasks, localStorage), Today, daysOld, sv)
    IN  /\ Commit(st)
        /\ last' = [Reported(Call("cleanupOldTasks", NoId, st))
                      EXCEPT !.n = Len(tasks) - Len(st.tasks)]
        /\ UNCHANGED nextId

\* Every method, called on a storage that takes every write.
Next ==
    \/ \E title \in TitleInputs, description \in DescriptionInputs :
          CreateTaskCall(title, description, "ok")
    \/ \E id \in Ids, u \in UpdateInputs : UpdateTaskCall(id, u, "ok")
    \/ \E id \in Ids : DeleteTaskCall(id, "ok")
    \/ \E id \in Ids, newStatus \in TaskStatus,
          newOrder \in Orders \cup {Omitted} :
          ChangeTaskStatusCall(id, newStatus, newOrder, "ok")
    \/ \E id \in Ids, newOrder \in Orders : ReorderTaskCall(id, newOrder, "ok")
    \/ \E id \in Ids, newStatus \in TaskStatus, newOrder \in Orders :
          MoveTaskCall(id, newStatus, newOrder, "ok")
    \/ \E updates \in BatchInputs : BatchUpdateTasksCall(updates, "ok")
    \/ \E operation \in DragDropInputs :
          HandleDragDropOperationCall(operation, "ok")
    \/ ValidateTaskIntegrityCall
    \/ RepairTaskIntegrityCall("ok")
    \/ \E daysOld \in DaysOldInputs : CleanupOldTasksCall(daysOld, "ok")

Spec == Init /\ [][Next]_vars

\* The batch methods, and the two methods that make and remove the tasks
\* they name, called on a storage that may refuse a write.
NextStorage ==
    \/ \E title \in TitleInputs, description \in DescriptionInputs,
          sv \in SaveOutcomes : CreateTaskCall(title, description, sv)
    \/ \E id \in Ids, sv \in SaveOutcomes : DeleteTaskCall(id, sv)
    \/ \E updates \in BatchInputs, sv \in SaveOutcomes :
          BatchUpdateTasksCall(updates, sv)
    \/ \E operation \in DragDropInputs, sv \in SaveOutcomes :
          HandleDragDropOperationCall(operation, sv)

SpecStorage == Init /\ [][NextStorage]_vars

\* --------------------------------------------------------- stored states
\* What a browser may hold when the service is constructed.
StaleVersion == "0.9.0"
\* Legacy arrays: records with free-text statuses ("todo", "Doing" and
\* "completed", "urgent") and without createdAt; the second record of
\* LegacyTwo has no order; the one record of the last array has no id.
LegacyTwo ==
    <<[id |-> 1, title |-> ValidTitle, status |-> "Doing", order |-> 0],
      [id |-> 2, title |-> ValidTitle, status |-> "completed"]>>
LegacyArrays ==
    {<<[id |-> 1, title |-> ValidTitle, status |-> "todo", order |-> 0]>>,
     LegacyTwo,
     <<[id |-> 1, title |-> ValidTitle, status |-> "urgent", order |-> 0]>>,
     <<[title |-> ValidTitle, status |-> "todo", order |-> 0,
        createdAt |-> ToISOString(Today)]>>}
\* What the tasks key may hold: a text that is not JSON; a task array the
\* current version saved, in order, with a gap, and with two records of the
\* same id; a legacy array.
StoredTexts ==
    {NotJson,
     Stringify(<<Task(1, ValidTitle, Undefined, BACKLOG, Today, 0)>>),
     Stringify(<<Task(1, ValidTitle, Undefined, DONE, Today, 1)>>),
     Stringify(<<Task(1, ValidTitle, Undefined, BACKLOG, Today, 0),
                 Task(1, ValidTitle, Undefined, DONE, Today, 0)>>)}
    \cup LegacyArrays

\* The storage holding the given keys: version (none, the stale one, the
\* current one, or "1.2", which a later release wrote) and tasks (or none).
EmptyStorage == <<>>
StoredStates ==
    {LET versioned == IF hasVersion
                      THEN SetItem(EmptyStorage, VERSION_KEY, version)
                      ELSE EmptyStorage
     IN  IF hasTasks THEN SetItem(versioned, STORAGE_KEY, text) ELSE versioned :
        hasVersion \in BOOLEAN,
        version \in {StaleVersion, CURRENT_VERSION, "1.2"},
        hasTasks \in BOOLEAN, text \in StoredTexts}

\* The ids the stored records hold are ids generateId has handed out.
StoredIds(ls) ==
    IF HasItem(ls, STORAGE_KEY) /\ ls[STORAGE_KEY] # NotJson
    THEN {ls[STORAGE_KEY][i].id :
            i \in {k \in 1..Len(ls[STORAGE_KEY]) :
                     "id" \in DOMAIN ls[STORAGE_KEY][k]}}
    ELSE {}

\* The record of a construction: the storage it found, and its outcome; n is
\* the number of tasks it loaded into the collection.
ConstructorCall(stored, st) ==
    [op |-> "constructor", id |-> NoId, from |-> NoStatus,
     preValid |-> FALSE, n |-> Len(st.tasks), threw |-> st.thrown,
     ok |-> st.err = NoError, writes |-> st.writes, err |-> st.err,
     stored |-> stored]

\* The first construction of a session, over any stored state.
InitStartup ==
    \E stored \in StoredStates, svMigrate \in SetItemOutcomes,
       svStamp \in SetItemOutcomes, svRepair \in SaveOutcomes :
        LET st == Constructor(stored, Today, svMigrate, svStamp, svRepair)
        IN  /\ tasks = st.tasks
            /\ localStorage = st.ls
            /\ nextId = 1 + Cardinality(StoredIds(stored))
            /\ last = ConstructorCall(stored, st)

\* A browser restart: a new service constructed over the storage as it is.
RestartCall(svMigrate, svStamp, svRepair) ==
    LET st == Constructor(localStorage, Today, svMigrate, svStamp, svRepair)
    IN  /\ Commit(st)
        /\ last' = ConstructorCall(localStorage, st)
        /\ UNCHANGED nextId

\* Sessions: the methods that add, change and remove tasks, on a storage
\* that may refuse a write, and restarts.
NextStartup ==
    \/ \E sv \in SaveOutcomes : CreateTaskCall(ValidTitle, Undefined, sv)
    \/ \E id \in Ids, u \in OrderUpdates \cup {[status |-> DONE]} :
          UpdateTaskCall(id, u, "ok")
    \/ \E id \in Ids, sv \in SaveOutcomes : DeleteTaskCall(id, sv)
    \/ \E sv \in SaveOutcomes : RepairTaskIntegrityCall(sv)
    \/ \E daysOld \in DaysOldInputs, sv \in SaveOutcomes :
          CleanupOldTasksCall(daysOld, sv)
    \/ \E svMigrate \in SetItemOutcomes, svStamp \in SetItemOutcomes,
          svRepair \in SaveOutcomes :
          RestartCall(svMigrate, svStamp, svRepair)

SpecStartup == InitStartup /\ [][NextStartup]_vars

\* ------------------------------------------------- the migration path
\* Version texts a storage or a migration step may carry.
VersionTexts == {"0.9.0", "1.0.0", "1.0", "1.2", "1.9.0", "1.10.0"}

\* The record of a call of getMigrationPath(fromVersion, toVersion): the
\* path it returned, and what its filter says of a step of the given version.
GetMigrationPathCall(version, fromVersion, toVersion) ==
    /\ last' = [op |-> "getMigrationPath", version |-> version,
                fromVersion |-> fromVersion, toVersion |-> toVersion,
                kept |-> KeepsMigration([version |-> version],
                                        fromVersion, toVersion),
                path |-> GetMigrationPath(fromVersion, toVersion)]
    /\ UNCHANGED <<tasks, localStorage, nextId>>

\* The call the constructor makes over a stale version.
InitVersions ==
    /\ tasks = <<>>
    /\ localStorage = SetItem(EmptyStorage, VERSION_KEY, StaleVersion)
    /\ nextId = 1
    /\ last = [op |-> "getMigrationPath", version |-> CURRENT_VERSION,
               fromVersion |-> StaleVersion, toVersion |-> CURRENT_VERSION,
               kept |-> KeepsMigration([version |-> CURRENT_VERSION],
                                       StaleVersion, CURRENT_VERSION),
               path |-> GetMigrationPath(StaleVersion, CURRENT_VERSION)]

NextVersions ==
    \E version \in VersionTexts, fromVersion \in VersionTexts,
       toVersion \in VersionTexts :
        GetMigrationPathCall(version, fromVersion, toVersion)

SpecVersions == InitVersions /\ [][NextVersions]_vars

\* ---------------------------------------------------- the quota check
\* estimatedLimit * 0.9 with estimatedLimit = 5 * 1024 * 1024: a whole number.
UsableLimit == (5 * 1024 * 1024 * 9) \div 10

\* The lengths of the two keys and of the version text.
StorageKeyLength == Len(<<"d", "a", "i", "l", "y", "-", "t", "a", "s", "k", "s">>)
VersionKeyLength ==
    StorageKeyLength + Len(<<"-", "v", "e", "r", "s", "i", "o", "n">>)
VersionLength == Len(<<"1", ".", "0", ".", "0">>)

\* The for-in loop of checkStorageQuota over a storage given by the lengths
\* of what it holds: the version (if stored) and the tasks text (if stored;
\* storedLength = 0 stands for no tasks key).
CurrentUsage(hasVersion, storedLength) ==
    (IF hasVersion THEN VersionLength + VersionKeyLength ELSE 0)
    + (IF storedLength > 0 THEN storedLength + StorageKeyLength ELSE 0)

\* checkStorageQuota(dataString) where dataString.length = dataLength.
CheckStorageQuota(hasVersion, storedLength, dataLength) ==
    LET currentUsage == CurrentUsage(hasVersion, storedLength)
        dataSize == dataLength * 2
    IN  currentUsage + dataSize < UsableLimit

\* The record of a saveTasks call over sizes: whether it wrote (it throws
\* 'Insufficient localStorage space' otherwise).
SaveSizedCall(hasVersion, storedLength, dataLength) ==
    /\ last' = [op |-> "saveTasks", hasVersion |-> hasVersion,
                storedLength |-> storedLength, dataLength |-> dataLength,
                wrote |-> CheckStorageQuota(hasVersion, storedLength,
                                            dataLength)]
    /\ UNCHANGED <<tasks, localStorage, nextId>>

\* The first save of an empty collection ('[]') by a new service.
InitQuota ==
    /\ tasks = <<>>
    /\ localStorage = SetItem(EmptyStorage, VERSION_KEY, CURRENT_VERSION)
    /\ nextId = 1
    /\ last = [op |-> "saveTasks", hasVersion |-> TRUE, storedLength |-> 0,
               dataLength |-> 2,
               wrote |-> CheckStorageQuota(TRUE, 0, 2)]

\* Saves over lengths of the stored tasks text and of the text to save.
NextQuota ==
    \E hasVersion \in BOOLEAN,
       storedLength \in {0, 2, 1600000, 2718556, 2718557, 2718558, 2718581,
                         4718000},
       dataLength \in {2, 1000000, 1600000, 2359278, 2359279, 2359280,
                       2359296, 2400000} :
        SaveSizedCall(hasVersion, storedLength, dataLength)

SpecQuota == InitQuota /\ [][NextQuota]_vars

\* ------------------------------------------- collections from storage
\* The day of a task created 40 days ago.
LongAgo == Today - 40

\* Tasks loadTasks can make of stored records: sound ones, and ones with
\* one defect (no id, a blank, missing or over-long title, an over-long
\* description, a status that is not of the enumeration).
SoundTasks ==
    {Task(id, ValidTitle, Undefined, status, createdAt, order) :
        id \in 1..2, status \in {BACKLOG, DONE},
        createdAt \in {Today, LongAgo}, order \in 0..1}
LoadedCollections ==
    UNION {[1..n -> SoundTasks \cup
                    {Task(NoId, ValidTitle, Undefined, BACKLOG, Today, 0),
                     Task(1, BlankTitle, Undefined, BACKLOG, Today, 0),
                     Task(1, Undefined, Undefined, BACKLOG, Today, 0),
                     Task(1, LongTitle, Undefined, BACKLOG, Today, 0),
                     Task(1, ValidTitle, LongDescription, BACKLOG, Today, 0),
                     Task(1, ValidTitle, Undefined, "todo", Today, 0)}] :
           n \in 0..MaxTasks}

\* The service when loadTasks has loaded a stored array of the current
\* version and validateAndRepairOnInit has not looked at it yet.
InitIntegrity ==
    \E ts \in LoadedCollections :
        /\ tasks = ts
        /\ localStorage = SetItem(SetItem(EmptyStorage, VERSION_KEY,
                                          CURRENT_VERSION),
                                  STORAGE_KEY, Stringify(ts))
        /\ nextId = 3
        /\ last = Call("loadTasks", NoId, Svc(ts, <<>>))

\* The integrity methods on a loaded collection.
NextIntegrity ==
    \/ ValidateTaskIntegrityCall
    \/ \E sv \in SaveOutcomes : RepairTaskIntegrityCall(sv)
    \/ \E daysOld \in DaysOldInputs, sv \in SaveOutcomes :
          CleanupOldTasksCall(daysOld, sv)

SpecIntegrity == InitIntegrity /\ [][NextIntegrity]_vars

\* ------------------------------------------------- the board controller
\* The number of tasks on the board when the session starts.
BoardTasks == 3

\* moveItemInArray(array, fromIndex, toIndex) of @angular/cdk/drag-drop: the
\* array after the call.  Indexes are 0-based and clamped to the array.
MoveItemInArray(array, fromIndex, toIndex) ==
    LET clamp(value, max) == IF max < 0 \/ value < 0 THEN 0
                             ELSE IF value > max THEN max ELSE value
        from == clamp(fromIndex, Len(array) - 1)
        to == clamp(toIndex, Len(array) - 1)
        rest == [i \in 1..(Len(array) - 1) |->
                    IF i <= from THEN array[i] ELSE array[i + 1]]
    IN  IF from = to THEN array
        ELSE [i \in 1..Len(array) |->
                IF i <= to THEN rest[i]
                ELSE IF i = to + 1 THEN array[from + 1]
                ELSE rest[i - 1]]

\* transferArrayItem(currentArray, targetArray, currentIndex, targetIndex) of
\* @angular/cdk/drag-drop: the two arrays after the call.
TransferArrayItem(currentArray, targetArray, currentIndex, targetIndex) ==
    LET clamp(value, max) == IF max < 0 \/ value < 0 THEN 0
                             ELSE IF value > max THEN max ELSE value
        from == clamp(currentIndex, Len(currentArray) - 1)
        to == clamp(targetIndex, Len(targetArray))
    IN  IF Len(currentArray) = 0
        THEN [current |-> currentArray, target |-> targetArray]
        ELSE [current |-> [i \in 1..(Len(currentArray) - 1) |->
                             IF i <= from THEN currentArray[i]
                             ELSE currentArray[i + 1]],
              target |-> [i \in 1..(Len(targetArray) + 1) |->
                             IF i <= to THEN targetArray[i]
                             ELSE IF i = to + 1 THEN currentArray[from + 1]
                             ELSE targetArray[i - 1]]]

\* revertDropOperation(), which is validateDataIntegrity(): the state after
\* the call.  The repair's save has the outcome sv.
RevertDropOperation(st, sv) ==
    IF ~ValidateTaskIntegrity(st.tasks) THEN RepairTaskIntegrity(st, sv)
    ELSE st

\* handleReorderOperation(event, draggedTask): the state after the call; err
\* is the error of the failure result it showed.  A container is its status
\* (getStatusFromContainerId) and the tasks it displays.
HandleReorderOperation(st, event, draggedTask, sv, svRepair) ==
    LET moved == MoveItemInArray(event.container.data, event.previousIndex,
                                 event.currentIndex)
        affectedTasks == [i \in 1..Len(moved) |->
                             [id |-> moved[i].id, newOrder |-> i - 1]]
        result == HandleDragDropOperation(
                    st,
                    [taskId |-> draggedTask.id, newStatus |-> NoStatus,
                     newOrder |-> event.currentIndex,
                     affectedTasks |-> affectedTasks],
                    sv)
    IN  IF result.err # NoError
        THEN [RevertDropOperation(result, svRepair) EXCEPT !.err = result.err]
        ELSE result

\* handleMoveOperation that leaves the tasks of the previous column out of
\* affectedTasks.
HandleMoveOperationCurrentOnly(st, event, draggedTask, sv, svRepair) ==
    LET moved == TransferArrayItem(event.previousContainer.data,
                                   event.container.data,
                                   event.previousIndex, event.currentIndex)
        currentTasks == moved.target
        affectedTasks ==
            [i \in 1..Len(currentTasks) |->
                [id |-> currentTasks[i].id, newOrder |-> i - 1]]
        result == HandleDragDropOperation(
                    st,
                    [taskId |-> draggedTask.id,
                     newStatus |-> event.container.id,
                     newOrder |-> event.currentIndex,
                     affectedTasks |-> affectedTasks],
                    sv)
    IN  IF result.err # NoError
        THEN [RevertDropOperation(result, svRepair) EXCEPT !.err = result.err]
        ELSE result

\* handleMoveOperation(event, draggedTask): the state after the call.
HandleMoveOperation(st, event, draggedTask, sv, svRepair) ==
    LET moved == TransferArrayItem(event.previousContainer.data,
                                   event.container.data,
                                   event.previousIndex, event.currentIndex)
        currentTasks == moved.target
        previousTasks == moved.current
        affectedTasks ==
            [i \in 1..Len(currentTasks) |->
                [id |-> currentTasks[i].id, newOrder |-> i - 1]]
            \o [i \in 1..Len(previousTasks) |->
                  [id |-> previousTasks[i].id, newOrder |-> i - 1]]
        result == HandleDragDropOperation(
                    st,
                    [taskId |-> draggedTask.id,
                     newStatus |-> event.container.id,
                     newOrder |-> event.currentIndex,
                     affectedTasks |-> affectedTasks],
                    sv)
    IN  IF result.err # NoError
        THEN [RevertDropOperation(result, svRepair) EXCEPT !.err = result.err]
        ELSE result

\* onDrop(event); previousContainer === container when the task is dropped
\* on the column it was dragged from.
OnDrop(st, event, sv, svRepair) ==
    LET draggedTask == event.previousContainer.data[event.previousIndex + 1]
    IN  IF event.previousContainer.id = event.container.id
        THEN HandleReorderOperation(st, event, draggedTask, sv, svRepair)
        ELSE HandleMoveOperation(st, event, draggedTask, sv, svRepair)

\* The drops the displayed columns allow: a task of a column, dropped on a
\* position of its own column or on a position of another column (the
\* positions of its tasks and the one below them).
DropEvents(ts) ==
    UNION {
      {[previousContainer |-> [id |-> from, data |-> GetTasksByStatus(ts, from)],
        container |-> [id |-> to, data |-> GetTasksByStatus(ts, to)],
        previousIndex |-> previousIndex, currentIndex |-> currentIndex] :
          previousIndex \in 0..(Len(GetTasksByStatus(ts, from)) - 1),
          currentIndex \in 0..(IF from = to
                               THEN Len(GetTasksByStatus(ts, to)) - 1
                               ELSE Len(GetTasksByStatus(ts, to)))} :
      from \in TaskStatus, to \in TaskStatus}

\* The service after n calls createTask('T', 'd') on an empty board.
RECURSIVE CreatedTasks(_)
CreatedTasks(n) ==
    IF n = 0 THEN Svc(<<>>, [k \in {VERSION_KEY} |-> CURRENT_VERSION])
    ELSE CreateTask(CreatedTasks(n - 1), n, ValidTitle, <<"d">>, Today, "ok")

\* A board whose tasks createTask made.
InitBoard ==
    \E n \in 1..BoardTasks :
        /\ tasks = CreatedTasks(n).tasks
        /\ localStorage = CreatedTasks(n).ls
        /\ nextId = n + 1
        /\ last = Call("createTask", n,
                       Svc(CreatedTasks(n).tasks, CreatedTasks(n).ls))

OnDropCall(event, sv, svRepair) ==
    LET st == OnDrop(Svc(tasks, localStorage), event, sv, svRepair)
    IN  /\ Commit(st)
        /\ last' = [Reported(Call("onDrop",
                        event.previousContainer.data[event.previousIndex + 1].id,
                        st))
                      EXCEPT !.from = event.previousContainer.id]
        /\ UNCHANGED nextId

\* Drops, on a storage that takes every write.
NextBoard ==
    \E event \in DropEvents(tasks) : OnDropCall(event, "ok", "ok")

SpecBoard == InitBoard /\ [][NextBoard]_vars

\* ------------------------------------------------------ edits on the board
\* updateTaskStatus(id, newStatus)
UpdateTaskStatus(st, id, newStatus, sv) ==
    IF ~HasTask(st.tasks, id) THEN Throw(st, ErrNotFound)
    ELSE UpdateTask(st, id, [status |-> newStatus], sv)

\* onModalSave(event): the state after the call; event.task is the task the
\* modal edits, or NoId (null) when it creates one, which gets the id newId.
\* The catch shows whatever is thrown; err is then the error it showed.
OnModalSave(st, event, newId, sv) ==
    IF event.task # NoId
    THEN UpdateTask(st, event.task, event.updates, sv)
    ELSE CreateTask(st, newId, event.updates.title, event.updates.description,
                    Today, sv)

\* saveDescriptionEdit() of the card of task with editedDescription in its
\* textarea: the updateTask events it emits (none or one).
SaveDescriptionEdit(task, editedDescription) ==
    LET trimmedDescription == Trim(editedDescription)
        currentDescription == IF task.description = Undefined THEN <<>>
                              ELSE task.description
        descriptionValue == IF trimmedDescription = <<>> THEN Undefined
                            ELSE trimmedDescription
    IN  IF Len(editedDescription) > MaxDescriptionLength THEN <<>>
        ELSE IF trimmedDescription # currentDescription
             THEN <<[id |-> task.id,
                     updates |-> [description |-> descriptionValue]]>>
        ELSE <<>>

\* onUpdateTask(event): the state after the call.  The catch shows whatever
\* updateTask throws; err is then the error it showed.
OnUpdateTask(st, event, sv) == UpdateTask(st, event.id, event.updates, sv)

UpdateTaskStatusCall(id, newStatus, sv) ==
    LET st == UpdateTaskStatus(Svc(tasks, localStorage), id, newStatus, sv)
    IN  /\ Commit(st)
        /\ last' = Call("updateTaskStatus", id, st)
        /\ UNCHANGED nextId

OnModalSaveCall(event, sv) ==
    LET st == OnModalSave(Svc(tasks, localStorage), event, nextId, sv)
        made == Len(st.tasks) > Len(tasks)
    IN  /\ event.task # NoId => HasTask(tasks, event.task)
        /\ event.task = NoId => nextId <= MaxTasks
        /\ Commit(st)
        /\ nextId' = IF made THEN nextId + 1 ELSE nextId
        /\ last' = Reported(Call("onModalSave", event.task, st))

\* An inline description edit of the card of the task id, saved.
SaveDescriptionEditCall(id, editedDescription, sv) ==
    LET events == SaveDescriptionEdit(GetTask(tasks, id), editedDescription)
        st == IF events = <<>> THEN Svc(tasks, localStorage)
              ELSE OnUpdateTask(Svc(tasks, localStorage), events[1], sv)
    IN  /\ HasTask(tasks, id)
        /\ Commit(st)
        /\ last' = [Reported(Call("saveDescriptionEdit", id, st))
                      EXCEPT !.n = Len(events)]
        /\ UNCHANGED nextId

\* A board of at most MaxTasks tasks createTask made.
InitBoardEdits ==
    \E n \in 1..MaxTasks :
        /\ tasks = CreatedTasks(n).tasks
        /\ localStorage = CreatedTasks(n).ls
        /\ nextId = n + 1
        /\ last = Call("createTask", n,
                       Svc(CreatedTasks(n).tasks, CreatedTasks(n).ls))

\* What the user does on the board: drops, status changes, modal saves (a
\* status edit, a new task) and inline description edits, on a storage that
\* may refuse a write.
NextBoardEdits ==
    \/ \E event \in DropEvents(tasks), sv \in {"ok", "quota"} :
          OnDropCall(event, sv, sv)
    \/ \E id \in Ids, newStatus \in TaskStatus :
          UpdateTaskStatusCall(id, newStatus, "ok")
    \/ \E id \in Ids, newStatus \in TaskStatus :
          OnModalSaveCall([task |-> id, updates |-> [status |-> newStatus]],
                          "ok")
    \/ OnModalSaveCall([task |-> NoId,
                        updates |-> [title |-> ValidTitle,
                                     description |-> Undefined]], "ok")
    \/ \E id \in Ids,
          editedDescription \in {<<>>, <<" ">>, <<"d">>, <<"e">>} :
          SaveDescriptionEditCall(id, editedDescription, "ok")

SpecBoardEdits == InitBoardEdits /\ [][NextBoardEdits]_vars

\* ----------------------------------------------------------------- two tabs
\* Two services (tabs) over the same localStorage, with nothing that tells
\* one of a write of the other: here tasks holds the _tasks signal of each
\* tab, tasks[1] and tasks[2], and the record of a call names its tab.
\* generateId() is taken to hand out an id once over both tabs.
InitTabs ==
    /\ tasks = <<<<>>, <<>>>>
    /\ localStorage = [k \in {VERSION_KEY} |-> CURRENT_VERSION]
    /\ nextId = 1
    /\ last = [tab |-> 0] @@ Call("constructor", NoId, Svc(<<>>, <<>>))

TabCreateTaskCall(tab, sv) ==
    LET st == CreateTask(Svc(tasks[tab], localStorage), nextId, ValidTitle,
                         Undefined, Today, sv)
        made == Len(st.tasks) > Len(tasks[tab])
    IN  /\ nextId <= MaxTasks
        /\ tasks' = [tasks EXCEPT ![tab] = st.tasks]
        /\ localStorage' = st.ls
        /\ nextId' = IF made THEN nextId + 1 ELSE nextId
        /\ last' = [tab |-> tab]
                   @@ Call("createTask", IF made THEN nextId ELSE NoId, st)

TabUpdateTaskCall(tab, id, u, sv) ==
    LET st == UpdateTask(Svc(tasks[tab], localStorage), id, u, sv)
    IN  /\ tasks' = [tasks EXCEPT ![tab] = st.tasks]
        /\ localStorage' = st.ls
        /\ last' = [tab |-> tab] @@ Call("updateTask", id, st)
        /\ UNCHANGED nextId

TabDeleteTaskCall(tab, id, sv) ==
    LET st == DeleteTask(Svc(tasks[tab], localStorage), id, sv)
    IN  /\ tasks' = [tasks EXCEPT ![tab] = st.tasks]
        /\ localStorage' = st.ls
        /\ last' = [tab |-> tab]
                   @@ [Call("deleteTask", id, st) EXCEPT
                         !.ok = st.err = NoError
                                /\ Len(st.tasks) < Len(tasks[tab])]
        /\ UNCHANGED nextId

\* The two tabs add, change and remove tasks in any order, on a storage
\* that may refuse a write.
NextTabs ==
    \/ \E tab \in 1..2, sv \in SaveOutcomes : TabCreateTaskCall(tab, sv)
    \/ \E tab \in 1..2, id \in Ids, sv \in SaveOutcomes,
          u \in {[status |-> DONE], [title |-> <<"U">>]} :
          TabUpdateTaskCall(tab, id, u, sv)
    \/ \E tab \in 1..2, id \in Ids, sv \in SaveOutcomes :
          TabDeleteTaskCall(tab, id, sv)

SpecTabs == InitTabs /\ [][NextTabs]_vars

\* ================================================================ claims
\* The claims about what one call does are stated of every call the state
\* allows: Here is the service in the current state, and a claim about a
\* method says what the method returns from it for every input.
Here == Svc(tasks, localStorage)

\* Every partition's orders, sorted, are exactly 0..N-1.
AllContiguous(ts) == \A s \in TaskStatus : ColumnInOrder(ts, s)

\* The ids of the tasks of a status, in the order the column shows them.
ColumnIds(ts, status) ==
    LET column == GetTasksByStatus(ts, status)
    IN  [i \in 1..Len(column) |-> column[i].id]

\* The sequence s without the value x.
Without(s, x) == SelectSeq(s, LAMBDA y : y # x)

\* The number of tasks of a status other than the task id.
OthersIn(ts, status, id) ==
    Len(SelectSeq(ts, LAMBDA t : t.status = status /\ t.id # id))

MutatingOps ==
    {"createTask", "updateTask", "deleteTask", "changeTaskStatus",
     "reorderTask", "moveTask", "batchUpdateTasks", "handleDragDropOperation",
     "repairTaskIntegrity", "cleanupOldTasks"}

\* C1: after every successful mutating operation of the Task Store, the
\* orders of the tasks of every status, sorted, are exactly 0, 1, ..., N-1.
C1_OrderContiguity ==
    (last.op \in MutatingOps /\ last.ok) => AllContiguous(tasks)

\* C2: a batchUpdateTasks that throws (missing id, invalid title or
\* description, failed persistence write) leaves every task of the in-memory
\* collection and everything in storage as they were before the call.
C2_BatchFailureChangesNothing ==
    \A updates \in BatchInputs, sv \in SaveOutcomes :
        LET st == BatchUpdateTasks(Here, updates, sv)
        IN  st.err # NoError
              => (st.tasks = tasks /\ st.ls = localStorage /\ st.writes = 0)

\* A batch of two updates was rolled back because the write failed.
C2_Witness ==
    /\ last.op = "batchUpdateTasks" /\ last.threw
    /\ last.n = 2 /\ last.err = ErrQuota
    /\ Len(tasks) = 2

\* The operation names a task, or an affected task, that is not in ts.
NamesMissingTask(ts, operation) ==
    \/ ~HasTask(ts, operation.taskId)
    \/ \E i \in 1..Len(operation.affectedTasks) :
          ~HasTask(ts, operation.affectedTasks[i].id)

\* C3: when the operation names a task that is not in the collection or the
\* persistence write fails, handleDragDropOperation returns a result with
\* success=false and an error message, and whenever it returns success=false
\* every task of the live collection is as it was before the call.
C3_DragDropFailureIsReported ==
    \A operation \in DragDropInputs, sv \in SaveOutcomes :
        LET st == HandleDragDropOperation(Here, operation, sv)
        IN  /\ (NamesMissingTask(tasks, operation) \/ sv # "ok")
                 => st.err # NoError
            /\ st.err # NoError => st.tasks = tasks

\* A drop on an existing task failed because its affected task had been
\* deleted.
C3_Witness ==
    /\ last.op = "handleDragDropOperation" /\ ~last.ok /\ ~last.threw
    /\ HasTask(tasks, last.id)
    /\ \E i \in 1..(nextId - 1) :
          ~HasTask(tasks, i) /\ last.err = ErrNotFoundId(i)

\* Source and destination are contiguous and the task is where it was sent.
MovedInto(ts, from, id, newStatus, newOrder) ==
    /\ ColumnInOrder(ts, from)
    /\ ColumnInOrder(ts, newStatus)
    /\ GetTask(ts, id).status = newStatus
    /\ GetTask(ts, id).order = newOrder

C5_DeleteCompacts ==
    \A id \in Ids :
        (HasTask(tasks, id) /\ ColumnInOrder(tasks, GetTask(tasks, id).status))
        => ColumnInOrder(DeleteTask(Here, id, "ok").tasks,
                         GetTask(tasks, id).status)

\* C6: a successful createTask gives the new task status Backlog and an
\* order equal to the number of Backlog tasks there were before the call.
C6_CreateOrderIsBacklogCount ==
    \A title \in TitleInputs, description \in DescriptionInputs :
        LET st == CreateTask(Here, nextId, title, description, Today, "ok")
        IN  st.err = NoError
            => /\ GetTask(st.tasks, nextId).status = BACKLOG
               /\ GetTask(st.tasks, nextId).order
                    = Len(GetTasksByStatus(tasks, BACKLOG))

\* C7: reorderTask(id, n), for a position n of a contiguous column, puts the
\* task at index n of the column's order-sorted sequence and keeps the other
\* tasks in their relative order.
C7_ReorderPutsTaskAtIndex ==
    \A id \in Ids, n \in Orders :
        LET st == ReorderTask(Here, id, n, "ok")
        IN  (/\ HasTask(tasks, id)
             /\ ColumnInOrder(tasks, GetTask(tasks, id).status)
             /\ n <= OthersIn(tasks, GetTask(tasks, id).status, id)
             /\ st.err = NoError)
            => LET status == GetTask(tasks, id).status
               IN  /\ ColumnIds(st.tasks, status)[n + 1] = id
                   /\ Without(ColumnIds(st.tasks, status), id)
                        = Without(ColumnIds(tasks, status), id)

C9_BatchWritesOnce ==
    (last.op \in {"batchUpdateTasks", "handleDragDropOperation"} /\ last.ok)
        => last.writes = 1

\* A batch of two updates went through.
C9_Witness ==
    /\ last.op = "batchUpdateTasks" /\ last.ok
    /\ last.n = 2 /\ last.writes = 1

\* The methods that write once when they succeed.
SingleWriteOps ==
    {"createTask", "updateTask", "deleteTask", "changeTaskStatus",
     "reorderTask", "moveTask", "repairTaskIntegrity"}

\* C10 as stated: every mutating operation that succeeds (a cleanup that
\* removes tasks included) makes exactly one persistence write.
C10_EverySuccessWritesOnce ==
    /\ (last.op \in SingleWriteOps /\ last.ok) => last.writes = 1
    /\ (last.op = "cleanupOldTasks" /\ last.ok /\ last.n > 0)
         => last.writes = 1

\* What decoding the bytes under the tasks key yields is the collection.
Mirror(ts, ls) == LoadTasks(ls).tasks = ts

\* C11: after startup and after every operation that returns
\* without throwing, decoding the bytes stored under the tasks key yields
\* exactly the in-memory collection.
C11_StoreMirrorsCollection ==
    ~last.threw => Mirror(tasks, localStorage)

\* C12: after a successful mutating operation (which has saved the
\* collection), constructing a new service over the same storage yields a
\* collection equal to the previous in-memory one.
C12_RestartRestoresCollection ==
    [][(/\ last'.op = "constructor"
        /\ last.op \in MutatingOps /\ last.ok /\ last.writes > 0
        /\ last'.err = NoError)
       => tasks' = tasks]_vars

\* The storage errors saveTasks throws.
StorageErrors == {ErrQuota, ErrNoSpace}

\* C13: when the persistence write fails during createTask, updateTask or
\* deleteTask, the call throws the storage error, the collection holds the
\* mutation, and the stored bytes are the ones from before the call.
C13_FailedWriteKeepsMutation ==
    \A sv \in SaveOutcomes \ {"ok"} :
        /\ LET st == CreateTask(Here, nextId, ValidTitle, Undefined, Today, sv)
           IN  /\ st.err \in StorageErrors
               /\ HasTask(st.tasks, nextId)
               /\ st.ls = localStorage
        /\ \A id \in Ids, u \in UpdateInputs :
              LET st == UpdateTask(Here, id, u, sv)
              IN  (HasTask(tasks, id) /\ ValidateUpdates(u) = NoError)
                  => /\ st.err \in StorageErrors
                     /\ GetTask(st.tasks, id) = ApplyUpdates(GetTask(tasks, id), u)
                     /\ st.ls = localStorage
        /\ \A id \in Ids :
              LET st == DeleteTask(Here, id, sv)
              IN  HasTask(tasks, id)
                  => /\ st.err \in StorageErrors
                     /\ ~HasTask(st.tasks, id)
                     /\ st.ls = localStorage

\* A deleteTask threw the storage error; the task is gone from the
\* collection and still in storage.
C13_Witness ==
    /\ last.op = "deleteTask" /\ last.threw /\ last.err \in StorageErrors
    /\ ~HasTask(tasks, last.id)
    /\ HasTask(LoadTasks(localStorage).tasks, last.id)

\* Titles and descriptions a caller may pass to createTask: also the empty
\* texts and a title of 128 characters followed by a space.
PaddedTitle == Repeat("a", MaxTitleLength) \o <<" ">>
CreateTitles == TitleInputs \cup {<<>>, PaddedTitle}
CreateDescriptions == DescriptionInputs \cup {<<>>, <<"d">>}
ValidationErrors ==
    {ErrTitleRequiredCreate, ErrTitleTooLong, ErrDescriptionTooLong}

\* C14: createTask with a title that is empty after trimming or longer than
\* 128 characters, or with a description longer than 256 characters, fails
\* with a validation error and leaves the collection and the stored bytes
\* as they were.
C14_InvalidCreateChangesNothing ==
    \A title \in CreateTitles, description \in CreateDescriptions :
        LET st == CreateTask(Here, nextId, title, description, Today, "ok")
        IN  (\/ Trim(title) = <<>>
             \/ Len(Trim(title)) > MaxTitleLength
             \/ description # Undefined
                  /\ Len(description) > MaxDescriptionLength)
            => /\ st.err \in ValidationErrors
               /\ st.tasks = tasks
               /\ st.ls = localStorage
               /\ st.writes = 0

\* A createTask was refused for its description, with a task in place.
C14_Witness ==
    /\ last.op = "createTask" /\ last.threw
    /\ last.err = ErrDescriptionTooLong
    /\ Len(tasks) >= 1
    /\ Mirror(tasks, localStorage)

\* C15: updateTask, changeTaskStatus, reorderTask and moveTask with an id
\* that is not in the collection fail with the not-found error and leave
\* the collection and the stored bytes as they were.
C15_UnknownIdChangesNothing ==
    \A id \in Ids :
        ~HasTask(tasks, id)
        => \A u \in UpdateInputs, newStatus \in TaskStatus,
              newOrder \in Orders :
              \A st \in {UpdateTask(Here, id, u, "ok"),
                         ChangeTaskStatus(Here, id, newStatus, newOrder, "ok"),
                         ChangeTaskStatus(Here, id, newStatus, Omitted, "ok"),
                         ReorderTask(Here, id, newOrder, "ok"),
                         MoveTask(Here, id, newStatus, newOrder, "ok")} :
                  /\ st.err = ErrNotFound
                  /\ st.tasks = tasks
                  /\ st.ls = localStorage

\* A moveTask of a deleted task was refused, with another task in place.
C15_Witness ==
    /\ last.op = "moveTask" /\ last.threw /\ last.err = ErrNotFound
    /\ last.id < nextId /\ ~HasTask(tasks, last.id)
    /\ Len(tasks) >= 1

\* The construction found unparseable bytes under the tasks key.
FoundCorrupt ==
    /\ last.op = "constructor"
    /\ HasItem(last.stored, STORAGE_KEY)
    /\ last.stored[STORAGE_KEY] = NotJson

\* C16: startup over unparseable bytes under the tasks key does not throw
\* and yields an empty collection, with or without a version key.
C16_CorruptStartsEmpty ==
    FoundCorrupt => (~last.threw /\ tasks = <<>>)

\* A startup over unparseable bytes and the current version.
C16_Witness ==
    /\ FoundCorrupt
    /\ HasItem(last.stored, VERSION_KEY)
    /\ last.stored[VERSION_KEY] = CURRENT_VERSION
    /\ ~last.threw /\ tasks = <<>>

\* C17 as stated: after a startup over unparseable bytes, the tasks key no
\* longer holds them.
C17_CorruptIsDiscarded ==
    FoundCorrupt
        => ~(HasItem(localStorage, STORAGE_KEY)
               /\ localStorage[STORAGE_KEY] = NotJson)

\* C17 amended: after a startup over unparseable bytes and no version key,
\* the tasks key no longer holds them (it holds nothing).
C17_UnversionedCorruptIsDiscarded ==
    (FoundCorrupt /\ ~HasItem(last.stored, VERSION_KEY))
        => ~HasItem(localStorage, STORAGE_KEY)

\* A startup over unparseable bytes and no version removed the bytes and
\* stamped the version.
C17_Witness ==
    /\ FoundCorrupt /\ ~HasItem(last.stored, VERSION_KEY)
    /\ ~HasItem(localStorage, STORAGE_KEY)
    /\ HasItem(localStorage, VERSION_KEY)

\* The construction found a legacy array and no version key.
FoundLegacy ==
    /\ last.op = "constructor"
    /\ ~HasItem(last.stored, VERSION_KEY)
    /\ HasItem(last.stored, STORAGE_KEY)
    /\ last.stored[STORAGE_KEY] \in LegacyArrays

\* The status the claim gives a legacy status text; any status of the
\* enumeration for the other texts.
LegacyStatusMaps(text, status) ==
    CASE text \in {"todo", "TODO"} -> status = BACKLOG
      [] text \in {"doing", "Doing"} -> status = IN_PROGRESS
      [] text \in {"completed"} -> status = DONE
      [] OTHER -> status \in TaskStatus

\* C18: after the startup migration of an unversioned legacy array in which
\* no write failed, every task of the collection has a status of the
\* enumeration, every record of an array detected as legacy is a task with
\* the status its legacy text maps to, and the version key holds the current
\* version.
C18_LegacyStatusesMapped ==
    (FoundLegacy /\ last.err = NoError)
    => LET data == last.stored[STORAGE_KEY]
       IN  /\ \A i \in 1..Len(tasks) : tasks[i].status \in TaskStatus
           /\ LooksLegacy(data)
                => \A i \in 1..Len(data) :
                      /\ HasTask(tasks, data[i].id)
                      /\ LegacyStatusMaps(data[i].status,
                                          GetTask(tasks, data[i].id).status)
           /\ HasItem(localStorage, VERSION_KEY)
           /\ localStorage[VERSION_KEY] = CURRENT_VERSION

\* A startup migrated the two-record legacy array.
C18_Witness ==
    /\ FoundLegacy /\ last.err = NoError
    /\ last.stored[STORAGE_KEY] = LegacyTwo
    /\ Len(tasks) = 2
    /\ GetTask(tasks, 1).status = IN_PROGRESS
    /\ GetTask(tasks, 2).status = DONE

\* The value (or absence) of a key is the same in both storages.
SameItem(ls1, ls2, key) ==
    /\ HasItem(ls1, key) <=> HasItem(ls2, key)
    /\ HasItem(ls1, key) => ls1[key] = ls2[key]

\* C19: if the startup migration of the storage a construction found fails
\* on a write (the migrated records cannot be written back, or the version
\* cannot be stamped), the migrator leaves the version key and the stored
\* task data as they were.
C19_FailedMigrationLeavesData ==
    last.op = "constructor"
    => \A svMigrate \in SetItemOutcomes, svStamp \in SetItemOutcomes :
          LET migrated == HandleDataMigration(last.stored, Today, svMigrate,
                                              svStamp)
          IN  MigrationWriteFailed(last.stored, svMigrate, svStamp)
              => /\ SameItem(migrated, last.stored, VERSION_KEY)
                 /\ SameItem(migrated, last.stored, STORAGE_KEY)

\* C20: a startup in which no migration write failed ends with the version
\* key equal to the current version, from every stored state, and in one
\* pass: the migrator changes nothing of the storage the startup leaves.
C20_MigrationEndsAtCurrentVersion ==
    (last.op = "constructor" /\ last.err # QuotaExceededError)
    => /\ HasItem(localStorage, VERSION_KEY)
       /\ localStorage[VERSION_KEY] = CURRENT_VERSION
       /\ \A svMigrate \in SetItemOutcomes, svStamp \in SetItemOutcomes :
             HandleDataMigration(localStorage, Today, svMigrate, svStamp)
                = localStorage

\* A startup over a stale version stamped the current one.
C20_Witness ==
    /\ last.op = "constructor" /\ last.err = NoError
    /\ HasItem(last.stored, VERSION_KEY)
    /\ last.stored[VERSION_KEY] = StaleVersion
    /\ localStorage[VERSION_KEY] = CURRENT_VERSION

\* A version as one number: its first three parts, each below 100, a
\* missing part being 0.
VersionNumber(text) ==
    LET parts == VersionParts(text)
        Part(i) == IF i <= Len(parts) THEN parts[i] ELSE 0
    IN  (Part(1) * 100 + Part(2)) * 100 + Part(3)

ProjectedUsage(hasVersion, dataLength) ==
    2 * ((IF hasVersion THEN VersionLength + VersionKeyLength ELSE 0)
         + dataLength + StorageKeyLength)

\* C22: a save writes exactly when the storage usage after the write does
\* not exceed 90% of the 5 MB ceiling, and refuses otherwise.
C22_RefusesExactlyAboveNinetyPercent ==
    last.op = "saveTasks"
    => (last.wrote
          <=> ~(ProjectedUsage(last.hasVersion, last.dataLength)
                  > UsableLimit))

\* The failures that are the storage's own capacity-exceeded failure.
NativeCapacityFailures == {"quota", "quota-plain"}

Partition(ts, status) == {i \in 1..Len(ts) : ts[i].status = status}

\* The orders of the partition are exactly 0..N-1, each once.
PartitionIsContiguous(ts, status) ==
    \A n \in 0..(Cardinality(Partition(ts, status)) - 1) :
        Cardinality({i \in Partition(ts, status) : ts[i].order = n}) = 1

\* The conditions C24 lists.
ListedConditions(ts) ==
    /\ \A i \in 1..Len(ts), j \in 1..Len(ts) : i # j => ts[i].id # ts[j].id
    /\ \A status \in TaskStatus : PartitionIsContiguous(ts, status)
    /\ \A i \in 1..Len(ts) :
          /\ ts[i].title # Undefined
          /\ Trim(ts[i].title) # <<>>
          /\ Len(ts[i].title) <= MaxTitleLength
          /\ ts[i].description # Undefined
                => Len(ts[i].description) <= MaxDescriptionLength
          /\ ts[i].status \in TaskStatus

\* C24 as stated: validateTaskIntegrity answers isValid = true exactly when
\* the collection has no duplicate ids, every partition's orders are
\* exactly 0..N-1, every title is non-empty after trimming and at most 128
\* characters, every present description is at most 256 characters, and
\* every status is of the enumeration.
C24_ValidExactlyWhenListedHold ==
    ValidateTaskIntegrity(tasks) <=> ListedConditions(tasks)

\* C24 amended: the same, with the further condition that every task has
\* an id.
C24_ValidExactlyWhenListedAndIdsHold ==
    ValidateTaskIntegrity(tasks)
        <=> /\ ListedConditions(tasks)
            /\ \A i \in 1..Len(tasks) : tasks[i].id # NoId

\* validateTaskIntegrity found a collection of two sound tasks invalid:
\* they have the same order in the same partition.
C24_Witness ==
    /\ last.op = "validateTaskIntegrity" /\ ~last.ok
    /\ Len(tasks) = 2
    /\ tasks[1] \in SoundTasks /\ tasks[2] \in SoundTasks
    /\ tasks[1].id # tasks[2].id
    /\ tasks[1].status = tasks[2].status
    /\ tasks[1].order = tasks[2].order

\* A task repairTaskIntegrity cannot keep, in the words of C25.
Unsalvageable(t) ==
    \/ t.id = NoId
    \/ t.title = Undefined
    \/ Trim(t.title) = <<>>
    \/ t.status \notin TaskStatus

\* The tasks with their order field blanked.
WithoutOrders(ts) == [i \in 1..Len(ts) |-> [ts[i] EXCEPT !.order = 0]]

\* The tasks of ts that pass the test, in their sequence.
RECURSIVE Salvaged(_)
Salvaged(ts) ==
    IF ts = <<>> THEN <<>>
    ELSE IF Unsalvageable(Head(ts)) THEN Salvaged(Tail(ts))
    ELSE <<Head(ts)>> \o Salvaged(Tail(ts))

\* C25: repairTaskIntegrity, whether its save succeeds or not, leaves the
\* collection made of exactly the tasks that are not unsalvageable (no id,
\* no or an empty title, a status outside the enumeration), unchanged but
\* for their order; in each partition the orders are 0..N-1, and two tasks
\* of a partition whose orders differed are still in the same relative
\* order.
C25_RepairDropsAndRenumbers ==
    \A sv \in SaveOutcomes :
        LET kept == Salvaged(tasks)
            repaired == RepairTaskIntegrity(Here, sv).tasks
        IN  /\ WithoutOrders(repaired) = WithoutOrders(kept)
            /\ \A status \in TaskStatus :
                  PartitionIsContiguous(repaired, status)
            /\ \A i \in 1..Len(kept), j \in 1..Len(kept) :
                  (kept[i].status = kept[j].status
                     /\ kept[i].order < kept[j].order)
                  => repaired[i].order < repaired[j].order

\* A repair whose save failed: the stored array still holds an
\* unsalvageable record and a task of order 1, the collection holds that
\* task alone, renumbered to 0.
C25_Witness ==
    /\ last.op = "repairTaskIntegrity" /\ last.err # NoError
    /\ Len(LoadTasks(localStorage).tasks) = 2
    /\ \E i \in 1..2 : Unsalvageable(LoadTasks(localStorage).tasks[i])
    /\ \E i \in 1..2 : /\ ~Unsalvageable(LoadTasks(localStorage).tasks[i])
                       /\ LoadTasks(localStorage).tasks[i].order = 1
    /\ Len(tasks) = 1 /\ tasks[1].order = 0

\* C26: repairTaskIntegrity called a second time leaves the collection the
\* first call produced as it is.
C26_RepairIsIdempotent ==
    \A sv1 \in SaveOutcomes, sv2 \in SaveOutcomes :
        LET first == RepairTaskIntegrity(Here, sv1)
            second == RepairTaskIntegrity(Svc(first.tasks, first.ls), sv2)
        IN  second.tasks = first.tasks

\* A repair has produced a collection of two tasks of one partition, and
\* the collection it started from was not one a repair leaves alone.
C26_Witness ==
    /\ last.op = "repairTaskIntegrity" /\ last.err # NoError
    /\ Len(tasks) = 2 /\ tasks[1].status = tasks[2].status
    /\ LoadTasks(localStorage).tasks # tasks
    /\ RepairTaskIntegrity(Here, "ok").tasks = tasks

\* The tasks cleanupOldTasks(daysOld) leaves, their orders blanked.
AfterCleanup(daysOld, sv) ==
    WithoutOrders(CleanupOldTasks(Here, Today, daysOld, sv).tasks)

C28_IdsAreUnique ==
    \A i \in 1..Len(tasks), j \in 1..Len(tasks) :
        i # j => tasks[i].id # tasks[j].id

\* The texts of a task are within the limits of the data model.
TextsWithinLimits(t) ==
    /\ t.title # Undefined
    /\ Trim(t.title) # <<>>
    /\ Len(t.title) <= MaxTitleLength
    /\ t.description # Undefined
          => Len(t.description) <= MaxDescriptionLength

\* Partial updates of the texts, also with a padded title, an empty and a
\* blank description, and a description of 256 characters and a space.
BlankDescription == <<" ">>
PaddedDescription == Repeat("d", MaxDescriptionLength) \o <<" ">>
TextUpdateInputs ==
    UpdateInputs
    \cup {[title |-> PaddedTitle], [title |-> LongTitle],
          [description |-> <<>>], [description |-> BlankDescription],
          [description |-> PaddedDescription],
          [title |-> ValidTitle, description |-> <<"d">>]}

\* C29: once the collection loaded at startup has been repaired, after
\* every successful createTask, updateTask or batchUpdateTasks every task
\* of the collection has a title that is non-empty after trimming and at
\* most 128 characters long, and a description, if it has one, of at most
\* 256 characters.
C29_TextsStayWithinLimits ==
    last.op = "repairTaskIntegrity"
    => /\ \A title \in CreateTitles, description \in CreateDescriptions :
             LET st == CreateTask(Here, nextId, title, description, Today,
                                  "ok")
             IN  st.err = NoError
                 => \A i \in 1..Len(st.tasks) :
                       TextsWithinLimits(st.tasks[i])
       /\ \A id \in Ids, u \in TextUpdateInputs :
             \A st \in {UpdateTask(Here, id, u, "ok"),
                        BatchUpdateTasks(Here,
                                         <<[id |-> id, updates |-> u]>>,
                                         "ok")} :
                 st.err = NoError
                 => \A i \in 1..Len(st.tasks) :
                       TextsWithinLimits(st.tasks[i])

\* Descriptions that are empty, or empty after trimming.
EmptyDescriptions == {<<>>, BlankDescription}

\* C30: after createTask, updateTask or batchUpdateTasks is given a
\* description that is empty or empty after trimming, the task it created
\* or updated has no description.
C30_EmptyDescriptionIsAbsent ==
    \A description \in EmptyDescriptions :
        /\ LET st == CreateTask(Here, nextId, ValidTitle, description, Today,
                                "ok")
           IN  st.err = NoError
               => GetTask(st.tasks, nextId).description = Undefined
        /\ \A id \in Ids :
              HasTask(tasks, id)
              => /\ GetTask(UpdateTask(Here, id,
                                       [description |-> description],
                                       "ok").tasks, id).description
                       = Undefined
                 /\ GetTask(BatchUpdateTasks(Here,
                               <<[id |-> id,
                                  updates |-> [description |-> description]]>>,
                               "ok").tasks, id).description
                       = Undefined

\* C33: after any sequence of same-column reorder drops and cross-column
\* move drops issued through onDrop, each built from the columns as
\* displayed and starting from tasks createTask made, validateTaskIntegrity
\* reports isValid = true and the number of tasks is what it was.
C33_DropsKeepBoardValid ==
    /\ ValidateTaskIntegrity(tasks)
    /\ Len(tasks) = nextId - 1

\* Drops have spread three tasks over the three columns, the last of them a
\* move out of Backlog that left a task behind in it.
C33_Witness ==
    /\ last.op = "onDrop" /\ last.ok /\ last.from = BACKLOG
    /\ Len(tasks) = BoardTasks
    /\ \A s \in TaskStatus : Len(GetTasksByStatus(tasks, s)) = 1

\* The service after the first k drops of the 'concurrent operations'
\* pattern: every drop is built from the same snapshots of Backlog and In
\* Progress, and drop i moves the snapshot's i-th Backlog task to index i of
\* In Progress.
RECURSIVE AfterSnapshotDrops(_, _, _, _)
AfterSnapshotDrops(st, backlogTasks, inProgressTasks, k) ==
    IF k = 0 THEN st
    ELSE OnDrop(AfterSnapshotDrops(st, backlogTasks, inProgressTasks, k - 1),
                [previousContainer |-> [id |-> BACKLOG, data |-> backlogTasks],
                 container |-> [id |-> IN_PROGRESS, data |-> inProgressTasks],
                 previousIndex |-> k - 1, currentIndex |-> k - 1],
                "ok", "ok")

\* C34: when several cross-column drops are issued one after another from
\* column snapshots captured before the first of them (drop i moves the
\* snapshot's i-th Backlog task to index i of In Progress), on a board of
\* tasks createTask made, validateTaskIntegrity reports isValid = true after
\* all drops have completed.
C34_SnapshotDropsKeepBoardValid ==
    last.op = "createTask" =>
        \A k \in 2..Len(tasks) :
            ValidateTaskIntegrity(
                AfterSnapshotDrops(Here, GetTasksByStatus(tasks, BACKLOG),
                                   GetTasksByStatus(tasks, IN_PROGRESS),
                                   k).tasks)

\* C35: after only a task's status is changed through updateTaskStatus, or
\* through a status edit saved from the edit modal, on a collection built by
\* createTask, validateTaskIntegrity reports isValid = true.
C35_StatusChangeKeepsBoardValid ==
    last.op = "createTask" =>
        \A i \in 1..Len(tasks), newStatus \in TaskStatus :
            /\ ValidateTaskIntegrity(
                   UpdateTaskStatus(Here, tasks[i].id, newStatus, "ok").tasks)
            /\ ValidateTaskIntegrity(
                   OnModalSave(Here, [task |-> tasks[i].id,
                                      updates |-> [status |-> newStatus]],
                               nextId, "ok").tasks)

\* C32: when handleDragDropOperation returns a failure result for a drop,
\* after onDrop every task in the store has the same status and order as
\* before the drag.
C32_FailedDropRestoresBoard ==
    \A event \in DropEvents(tasks), sv \in SaveOutcomes :
        LET st == OnDrop(Here, event, sv, sv)
        IN  st.err # NoError =>
                /\ Len(st.tasks) = Len(tasks)
                /\ \A i \in 1..Len(tasks) :
                       /\ st.tasks[i].id = tasks[i].id
                       /\ st.tasks[i].status = tasks[i].status
                       /\ st.tasks[i].order = tasks[i].order

\* C36: saving an inline description edit whose text is empty or only
\* whitespace, on a task that has a description, removes it: after the save
\* the task in the store has no description.
C36_EmptyEditRemovesDescription ==
    \A i \in 1..Len(tasks), editedDescription \in {<<>>, <<" ">>} :
        LET events == SaveDescriptionEdit(tasks[i], editedDescription)
        IN  tasks[i].description \notin {Undefined, <<>>} =>
                /\ events # <<>>
                /\ GetTask(OnUpdateTask(Here, events[1], "ok").tasks,
                           tasks[i].id).description = Undefined

\* C31: with two tabs on the same storage key and no coordination, after a
\* successful mutation the stored array is the collection of the tab that
\* wrote last, and the tasks only the other tab holds are absent from it.
C31_LastWriterOverwrites ==
    (last.op \in {"createTask", "updateTask", "deleteTask"} /\ last.ok) =>
        /\ localStorage[STORAGE_KEY] = Stringify(tasks[last.tab])
        /\ \A i \in 1..Len(tasks[3 - last.tab]) :
               ~HasTask(tasks[last.tab], tasks[3 - last.tab][i].id) =>
                   \A k \in 1..Len(localStorage[STORAGE_KEY]) :
                       localStorage[STORAGE_KEY][k].id
                           # tasks[3 - last.tab][i].id

\* Both tabs have created a task; the second tab wrote last, and the first
\* tab's task is in its collection but not in the storage.
C31_Witness ==
    /\ last.op = "createTask" /\ last.ok /\ last.tab = 2
    /\ Len(tasks[1]) = 1 /\ Len(tasks[2]) = 1
    /\ tasks[1][1].id # tasks[2][1].id
    /\ localStorage[STORAGE_KEY] = Stringify(tasks[2])

\* C37: startup never lowers the stored schema version: when the stored
\* version is greater than the current version, the version key is not
\* overwritten with the current version.
C37_VersionIsNeverLowered ==
    (/\ last.op = "constructor"
     /\ HasItem(last.stored, VERSION_KEY)
     /\ CompareVersions(last.stored[VERSION_KEY], CURRENT_VERSION) > 0) =>
        /\ HasItem(localStorage, VERSION_KEY)
        /\ localStorage[VERSION_KEY] = last.stored[VERSION_KEY]

\* C38: whenever repairTaskIntegrity returns true, an immediately following
\* validateTaskIntegrity reports isValid = true.
C38_RepairedCollectionIsValid ==
    (last.op = "repairTaskIntegrity" /\ last.ok) =>
        ValidateTaskIntegrity(tasks)


\* C39: updateTask and batchUpdateTasks accept a supplied title exactly
\* when createTask would accept the same title: all three judge emptiness
\* and the 128-character limit on the trimmed title.
C39_UpdateAcceptsTitlesLikeCreate ==
    \A title \in CreateTitles, id \in Ids :
        LET created == CreateTask(Here, nextId, title, Undefined, Today, "ok")
            updated == UpdateTask(Here, id, [title |-> title], "ok")
            batched == BatchUpdateTasks(Here,
                           <<[id |-> id, updates |-> [title |-> title]]>>,
                           "ok")
        IN  HasTask(tasks, id)
            => /\ (updated.err = NoError) <=> (created.err = NoError)
               /\ (batched.err = NoError) <=> (created.err = NoError)


\* C40: startup over unversioned legacy data never loses tasks: for any
\* stored array of legacy task records with no version key, the number of
\* tasks in the collection after startup (migration, load, validate and
\* repair) equals the number of stored records.
C40_LegacyStartupKeepsEveryRecord ==
    FoundLegacy => Len(tasks) = Len(last.stored[STORAGE_KEY])

====
